---- MODULE Spec2Model ----
(***************************************************************************)
(* Availability and power-scoring engine of the laboratory energy calendar.*)
(*                                                                         *)
(* Conventions of the model                                                *)
(*   - a clock time "HH:MM" is the pair <<HH, MM>> of its two fields;      *)
(*   - a TIME column of the database is its minute of the day (0..1439);   *)
(*   - a duration in hours is carried as its number of minutes (the route  *)
(*     divides a whole number of minutes by 60);                           *)
(*   - a DECIMAL(10,2) column is its whole number of hundredths (250 is    *)
(*     2.50); a JavaScript number is the exact rational <<n, d>>, so the   *)
(*     floating point of the code is replaced by exact arithmetic;         *)
(*   - a calendar date is a day number, day 0 being a Sunday.              *)
(***************************************************************************)
EXTENDS Integers, Sequences, FiniteSets, TLC

VARIABLES
    appointments,   \* prisma.appointment: the rows, row i has id i
    pc,             \* where the one service call in flight stands
    service,        \* the service that call is made to
    options,        \* its options
    conflictRows,   \* dbAppointmentsConflicting, once fetched
    loadRows,       \* dbAppointmentsAll, once fetched
    seenConflicts,  \* the appointment table as the conflict query read it
    seenLoad,       \* the appointment table as the load query read it
    seenMock,       \* the mockAppointments array as the call read it
    result          \* what the call returned

vars == <<appointments, pc, service, options, conflictRows, loadRows,
          seenConflicts, seenLoad, seenMock, result>>

----------------------------------------------------------------------------
(* Numbers *)

Abs(x) == IF x < 0 THEN -x ELSE x

RECURSIVE GCD(_, _)
GCD(a, b) == IF b = 0 THEN a ELSE GCD(b, a % b)

\* The rational n/d (d # 0) in lowest terms with a positive denominator.
Rat(n, d) ==
    LET s == IF d < 0 THEN -1 ELSE 1
        g == GCD(Abs(n), Abs(d))
    IN  <<(s * n) \div g, (s * d) \div g>>

RInt(n) == <<n, 1>>
RAdd(a, b) == Rat(a[1] * b[2] + b[1] * a[2], a[2] * b[2])
RSub(a, b) == Rat(a[1] * b[2] - b[1] * a[2], a[2] * b[2])
RMul(a, b) == Rat(a[1] * b[1], a[2] * b[2])
RDiv(a, b) == Rat(a[1] * b[2], a[2] * b[1])
RLt(a, b) == a[1] * b[2] < b[1] * a[2]
RLe(a, b) == a[1] * b[2] <= b[1] * a[2]
RZero == RInt(0)

\* Math.round: the nearest integer, halves upwards.
MathRound(a) == (2 * a[1] + a[2]) \div (2 * a[2])

\* Number(decimal) of a DECIMAL(10,2) value held as its hundredths.
Number(decimal) == Rat(decimal, 100)

\* x.toFixed(1): x to one decimal, as its number of tenths.
toFixed1(a) == MathRound(RMul(a, RInt(10)))

Min2(a, b) == IF a < b THEN a ELSE b
Max2(a, b) == IF a > b THEN a ELSE b

----------------------------------------------------------------------------
(* Configuration of AvailabilityService *)

WORKING_HOURS_START == 8
WORKING_HOURS_END == 18
DEFAULT_SLOT_DURATION == 2
PEAK_CONSUMPTION_THRESHOLD == 4
SLOT_INCREMENT_MINUTES == 30

----------------------------------------------------------------------------
(* Time arithmetic *)

\* (a variant of formatTime that drops the minutes)
formatTimeHoursOnly(hourMinutes) == <<hourMinutes \div 60, 0>>

\* formatTime(hour): hours = floor(hour), minutes = round((hour - hours)*60);
\* the hour is given as its number of minutes.
formatTime(hourMinutes) ==
    LET hours == hourMinutes \div 60
        minutes == MathRound(RMul(RSub(Rat(hourMinutes, 60), RInt(hours)), RInt(60)))
    IN  <<hours, minutes>>

\* Date.getHours() of a TIME column on the server the offset is written for
\* (UTC-3): the stored hour moved three hours back, within 0..23.
getHours(stored) == ((stored \div 60) - 3) % 24
getMinutes(stored) == stored % 60

\* timeFromDate(d): getHours() + 3 and getMinutes(), as "HH:MM".
timeFromDate(stored) == <<getHours(stored) + 3, getMinutes(stored)>>

timeToMinutes(time) == time[1] * 60 + time[2]

\* (a variant of timeSlotsOverlap that counts touching ends as an overlap)
timeSlotsOverlapTouching(start1, end1, start2, end2) ==
    timeToMinutes(start1) <= timeToMinutes(end2)
        /\ timeToMinutes(end1) >= timeToMinutes(start2)

timeSlotsOverlap(start1, end1, start2, end2) ==
    LET s1 == timeToMinutes(start1)
        e1 == timeToMinutes(end1)
        s2 == timeToMinutes(start2)
        e2 == timeToMinutes(end2)
    IN  s1 < e2 /\ e1 > s2

overlapMinutes(start1, end1, start2, end2) ==
    LET s1 == timeToMinutes(start1)
        e1 == timeToMinutes(end1)
        s2 == timeToMinutes(start2)
        e2 == timeToMinutes(end2)
        overlap == Min2(e1, e2) - Max2(s1, s2)
    IN  Max2(0, overlap)

\* a.localeCompare(b) on two "HH:MM" strings of two-digit fields: -1, 0, 1.
localeCompare(a, b) ==
    IF a[1] # b[1] THEN (IF a[1] < b[1] THEN -1 ELSE 1)
    ELSE IF a[2] # b[2] THEN (IF a[2] < b[2] THEN -1 ELSE 1)
    ELSE 0

----------------------------------------------------------------------------
(* The store: reference data and the appointment table *)

\* Date.getDay(): 0 = Sunday .. 6 = Saturday.
getDay(date) == date % 7

\* prisma.machine rows.
MachineTable ==
    << [id |-> 1, laboratory_id |-> 1, power_consumption |-> 250],
       [id |-> 2, laboratory_id |-> 1, power_consumption |-> 180],
       [id |-> 3, laboratory_id |-> 2, power_consumption |-> 320] >>

MachineIds == {MachineTable[i].id : i \in 1..Len(MachineTable)}

\* prisma.preferredHour rows, in start_time order within a day.
PreferredHourTable ==
    << [day_of_week |-> 1, start_time |-> 540, end_time |-> 660,
        power_consumption |-> 1000],
       [day_of_week |-> 1, start_time |-> 780, end_time |-> 840,
        power_consumption |-> 300],
       [day_of_week |-> 2, start_time |-> 480, end_time |-> 720,
        power_consumption |-> 0],
       [day_of_week |-> 3, start_time |-> 660, end_time |-> 690,
        power_consumption |-> 190],
       [day_of_week |-> 3, start_time |-> 1200, end_time |-> 1260,
        power_consumption |-> 120] >>


\* The prisma.appointment rows AppointmentService.create may be asked to store
\* (TIME columns in minutes of the day: 480 is 08:00).
AppointmentInputs ==
    { [laboratory_id |-> 1, appointment_date |-> 1, start_time |-> 1020,
       end_time |-> 1110, status |-> "confirmed", power_consumption |-> <<600>>,
       machineIds |-> {1}],
      [laboratory_id |-> 2, appointment_date |-> 1, start_time |-> 540,
       end_time |-> 660, status |-> "pending", power_consumption |-> <<320>>,
       machineIds |-> {3}],
      [laboratory_id |-> 1, appointment_date |-> 1, start_time |-> 120,
       end_time |-> 540, status |-> "confirmed", power_consumption |-> <<420>>,
       machineIds |-> {2}],
      [laboratory_id |-> 1, appointment_date |-> 2, start_time |-> 600,
       end_time |-> 630, status |-> "pending", power_consumption |-> <<>>,
       machineIds |-> {1}] }

\* The AvailabilityOptions a caller may pass: machineId 0 and duration <<>>
\* stand for an absent field; a duration is in minutes.
AvailabilityOptionsSet ==
    { [date |-> 1, laboratoryId |-> 1, machineId |-> 0, machineIds |-> m,
       duration |-> <<480>>] : m \in {{}, {1, 2}, {3}} }
    \cup
    { [date |-> 1, laboratoryId |-> 2, machineId |-> 0, machineIds |-> {3},
       duration |-> <<480>>],
      [date |-> 2, laboratoryId |-> 1, machineId |-> 0, machineIds |-> {1},
       duration |-> <<465>>],
      [date |-> 2, laboratoryId |-> 1, machineId |-> 0, machineIds |-> {3},
       duration |-> <<480>>],
      [date |-> 1, laboratoryId |-> 1, machineId |-> 0, machineIds |-> {1},
       duration |-> <<630>>],
      [date |-> 1, laboratoryId |-> 1, machineId |-> 1, machineIds |-> {},
       duration |-> <<>>] }

\* Further options passed to the service of app/services: Wednesday requests
\* of 8 and of 9 hours.
WednesdayOptionsSet ==
    { [date |-> 3, laboratoryId |-> 1, machineId |-> 0, machineIds |-> {1},
       duration |-> <<480>>],
      [date |-> 3, laboratoryId |-> 1, machineId |-> 0, machineIds |-> {1},
       duration |-> <<540>>] }

NoOptions ==
    [date |-> 0, laboratoryId |-> 0, machineId |-> 0, machineIds |-> {},
     duration |-> <<>>]

----------------------------------------------------------------------------
(* Array helpers *)

\* f[lo] + .. + f[hi], added by halves (exact sums do not depend on the order)
RECURSIVE SumRange(_, _, _)
SumRange(f, lo, hi) ==
    IF lo > hi THEN RZero
    ELSE IF lo = hi THEN f[lo]
    ELSE RAdd(SumRange(f, lo, (lo + hi) \div 2),
              SumRange(f, (lo + hi) \div 2 + 1, hi))

\* terms.reduce((sum, x) => sum + x, 0)
Sum(terms) == SumRange(terms, 1, Len(terms))

\* entries.map(x => x.power_consumption)
powersOf(entries) == [i \in 1..Len(entries) |-> entries[i].power_consumption]

\* the largest index of a set of indices, 0 for none
lastIndex(stops) ==
    IF stops = {} THEN 0 ELSE CHOOSE j \in stops : \A k \in stops : k <= j

insertAfter(sorted, x, p) ==
    SubSeq(sorted, 1, p) \o <<x>> \o SubSeq(sorted, p + 1, Len(sorted))

----------------------------------------------------------------------------
(* AvailabilityService (overlap-weighted): the store queries *)

\* (a variant of durationOf that always takes the default)
durationOfDefault(opts) == DEFAULT_SLOT_DURATION * 60

\* const { duration = DEFAULT_SLOT_DURATION } = options, in minutes
durationOf(opts) ==
    IF opts.duration = <<>> THEN DEFAULT_SLOT_DURATION * 60 ELSE opts.duration[1]

\* targetMachineIdsNum
targetMachineIds(opts) ==
    IF opts.machineIds # {} THEN opts.machineIds
    ELSE IF opts.machineId # 0 THEN {opts.machineId}
    ELSE {}

\* where: { laboratory_id, appointment_date in the day, status notIn
\*          [cancelled, CANCELLED], machines: some id in the targets }
conflictingWhere(a, opts) ==
    /\ a.laboratory_id = opts.laboratoryId
    /\ a.appointment_date = opts.date
    /\ a.status \notin {"cancelled", "CANCELLED"}
    /\ a.machines \cap targetMachineIds(opts) # {}

\* (a variant of allForLoadWhere that keeps every status)
allForLoadWhereAnyStatus(a, opts) == a.appointment_date = opts.date

\* where: { appointment_date in the day, status notIn [cancelled, CANCELLED] }
allForLoadWhere(a, opts) ==
    /\ a.appointment_date = opts.date
    /\ a.status \notin {"cancelled", "CANCELLED"}

\* findMany without orderBy: the rows come in an order the store chooses
orderings(rows) ==
    { [i \in 1..Len(rows) |-> rows[p[i]]] :
        p \in { q \in [1..Len(rows) -> 1..Len(rows)] :
                  \A i, j \in 1..Len(rows) : q[i] = q[j] => i = j } }

findConflicting(table, opts) ==
    SelectSeq(table, LAMBDA a : conflictingWhere(a, opts))

findAllForLoad(table, opts) ==
    SelectSeq(table, LAMBDA a : allForLoadWhere(a, opts))

\* { start_time: timeFromDate(..), end_time: timeFromDate(..),
\*   power_consumption: Number(a.power_consumption ?? 0), status }
ExistingAppointmentLight(a) ==
    [start_time |-> timeFromDate(a.start_time),
     end_time |-> timeFromDate(a.end_time),
     power_consumption |->
        IF a.power_consumption = <<>> THEN Number(0)
        ELSE Number(a.power_consumption[1]),
     status |-> a.status]

toLight(rows) == [i \in 1..Len(rows) |-> ExistingAppointmentLight(rows[i])]

\* prisma.preferredHour.findMany({ where: { day_of_week } }) as light shapes
preferredHoursOf(dayOfWeek) ==
    LET rows == SelectSeq(PreferredHourTable, LAMBDA p : p.day_of_week = dayOfWeek)
    IN  [i \in 1..Len(rows) |->
            [day_of_week |-> rows[i].day_of_week,
             start_time |-> timeFromDate(rows[i].start_time),
             end_time |-> timeFromDate(rows[i].end_time),
             power_consumption |-> Number(rows[i].power_consumption)]]

\* prisma.machine.findMany({ where: { id in targets, laboratory_id } })
machinesOf(opts) ==
    LET rows == SelectSeq(MachineTable,
                          LAMBDA m : m.id \in targetMachineIds(opts)
                                     /\ m.laboratory_id = opts.laboratoryId)
    IN  [i \in 1..Len(rows) |->
            [id |-> rows[i].id,
             power_consumption |-> Number(rows[i].power_consumption)]]


----------------------------------------------------------------------------
(* AvailabilityService (overlap-weighted): generateTimeSlots *)

\* machines.reduce((sum, m) => sum + m.power_consumption, 0)
totalMachinePower(machines) ==
    Sum(powersOf(machines))

\* (a variant of hasConflict that looks at the first row only)
hasConflictWithFirst(startTime, endTime, conflictingAppointments) ==
    /\ conflictingAppointments # <<>>
    /\ timeSlotsOverlap(startTime, endTime,
                        conflictingAppointments[1].start_time,
                        conflictingAppointments[1].end_time)

\* conflictingAppointments.some(a => timeSlotsOverlap(startTime, endTime, ..))
hasConflict(startTime, endTime, conflictingAppointments) ==
    \E i \in 1..Len(conflictingAppointments) :
        timeSlotsOverlap(startTime, endTime,
                         conflictingAppointments[i].start_time,
                         conflictingAppointments[i].end_time)

\* (a variant of preferredTerm that weighs by the window's own length)
preferredTermByWindow(startTime, endTime, slotMinutes, pref) ==
    LET mins == overlapMinutes(startTime, endTime, pref.start_time, pref.end_time)
        prefMinutes == timeToMinutes(pref.end_time) - timeToMinutes(pref.start_time)
    IN  IF mins = 0 THEN RZero
        ELSE RMul(Rat(mins, prefMinutes), pref.power_consumption)

\* one step of the preferred-hours reduce
preferredTerm(startTime, endTime, slotMinutes, pref) ==
    LET mins == overlapMinutes(startTime, endTime, pref.start_time, pref.end_time)
    IN  IF mins = 0 THEN RZero
        ELSE RMul(Rat(mins, slotMinutes), pref.power_consumption)

preferredWeighted(startTime, endTime, slotMinutes, preferredHours) ==
    Sum([i \in 1..Len(preferredHours) |->
            preferredTerm(startTime, endTime, slotMinutes, preferredHours[i])])

\* one step of the concurrent-appointments reduce
concurrentTerm(startTime, endTime, appt) ==
    LET mins == overlapMinutes(startTime, endTime, appt.start_time, appt.end_time)
        appSlotMinutes == timeToMinutes(appt.end_time) - timeToMinutes(appt.start_time)
    IN  IF mins = 0 THEN RZero
        ELSE RMul(Rat(mins, appSlotMinutes), appt.power_consumption)

concurrentWeighted(startTime, endTime, allAppointmentsForLoad) ==
    Sum([i \in 1..Len(allAppointmentsForLoad) |->
            concurrentTerm(startTime, endTime, allAppointmentsForLoad[i])])

NoReason == [text |-> "", kw |-> 0]
Reserved == [text |-> "Horario ya reservado", kw |-> 0]
HighConsumption(power) ==
    [text |-> "Alto consumo energetico", kw |-> toFixed1(power)]

\* (a variant of reasonOf that tests the power before the conflict)
reasonOfPowerFirst(conflict, power) ==
    IF RLt(RInt(PEAK_CONSUMPTION_THRESHOLD), power) THEN HighConsumption(power)
    ELSE IF conflict THEN Reserved
    ELSE NoReason

\* let reason; if (hasConflict) .. else if (power > PEAK_CONSUMPTION_THRESHOLD) ..
reasonOf(conflict, power) ==
    IF conflict THEN Reserved
    ELSE IF RLt(RInt(PEAK_CONSUMPTION_THRESHOLD), power) THEN HighConsumption(power)
    ELSE NoReason

\* the power_consumption the slot is pushed with
slotPower(machinePower, preferred, concurrent) == RAdd(preferred, concurrent)

\* timeSlots.push({ start_time, end_time, available: !hasConflict, .. })
slotOf(startTime, endTime, machineIds, conflict, extraPowerConsumption) ==
    [start_time |-> startTime,
     end_time |-> endTime,
     available |-> ~conflict,
     power_consumption |-> extraPowerConsumption,
     power_spike_percentage |-> RZero,
     machine_ids |-> machineIds,
     reason |-> reasonOf(conflict, extraPowerConsumption)]

\* the body of the for loop once startTime and endTime are formatted
slotBetween(startTime, endTime, machineIds, conflictingAppointments, preferredHours, machines, allAppointmentsForLoad) ==
    slotOf(startTime, endTime, machineIds,
           hasConflict(startTime, endTime, conflictingAppointments),
           slotPower(totalMachinePower(machines),
                     preferredWeighted(startTime, endTime,
                                       timeToMinutes(endTime) - timeToMinutes(startTime),
                                       preferredHours),
                     concurrentWeighted(startTime, endTime, allAppointmentsForLoad)))

\* the body of the for loop: the slot that starts at startHour
slotAt(startHour, machineIds, duration, conflictingAppointments, preferredHours, machines, allAppointmentsForLoad) ==
    slotBetween(formatTime(startHour), formatTime(startHour + duration),
                machineIds, conflictingAppointments, preferredHours, machines,
                allAppointmentsForLoad)

\* for (startHour = START; startHour + duration <= END; startHour += increment)
RECURSIVE slotLoop(_, _, _, _, _, _, _)
slotLoop(startHour, machineIds, duration, conflictingAppointments, preferredHours, machines, allAppointmentsForLoad) ==
    IF startHour + duration <= WORKING_HOURS_END * 60
    THEN <<slotAt(startHour, machineIds, duration, conflictingAppointments,
                  preferredHours, machines, allAppointmentsForLoad)>>
         \o slotLoop(startHour + SLOT_INCREMENT_MINUTES, machineIds, duration,
                     conflictingAppointments, preferredHours, machines,
                     allAppointmentsForLoad)
    ELSE <<>>

\* (a variant of comparePowerThenTime that compares the start times only)
compareTimeOnly(a, b) == localeCompare(a.start_time, b.start_time)

\* (a, b) => power differs ? a.power - b.power : a.start.localeCompare(b.start)
comparePowerThenTime(a, b) ==
    IF a.power_consumption # b.power_consumption
    THEN (IF RLt(a.power_consumption, b.power_consumption) THEN -1 ELSE 1)
    ELSE localeCompare(a.start_time, b.start_time)

\* one element put in its place: after the last one that does not come after it
sortInsert(sorted, x) ==
    insertAfter(sorted, x,
                lastIndex({j \in 1..Len(sorted) : comparePowerThenTime(sorted[j], x) <= 0}))

\* timeSlots.sort(comparePowerThenTime): an insertion sort, which keeps equal
\* elements in order
sortSlots(timeSlots) ==
    LET acc[i \in 0..Len(timeSlots)] ==
            IF i = 0 THEN <<>> ELSE sortInsert(acc[i - 1], timeSlots[i])
    IN  acc[Len(timeSlots)]

\* (a variant of spikeOf that measures from the slot down to the lowest)
spikeOfDrop(power, lowestPower) ==
    IF RLt(RZero, lowestPower)
    THEN RMul(RDiv(RSub(lowestPower, power), lowestPower), RInt(100))
    ELSE RSub(RZero, power)

\* lowestPower > 0 ? ((power - lowestPower) / lowestPower) * 100 : power
spikeOf(power, lowestPower) ==
    IF RLt(RZero, lowestPower)
    THEN RMul(RDiv(RSub(power, lowestPower), lowestPower), RInt(100))
    ELSE power

\* sortedSlots.map(slot => ({ ...slot, power_spike_percentage: .. }))
withSpikes(sortedSlots) ==
    LET lowestPower == IF Len(sortedSlots) > 0 THEN sortedSlots[1].power_consumption
                       ELSE RZero
    IN  [i \in 1..Len(sortedSlots) |->
            [sortedSlots[i] EXCEPT !.power_spike_percentage =
                spikeOf(sortedSlots[i].power_consumption, lowestPower)]]

generateTimeSlots(machineIds, duration, conflictingAppointments, preferredHours, machines, allAppointmentsForLoad) ==
    withSpikes(sortSlots(slotLoop(WORKING_HOURS_START * 60, machineIds, duration,
                                  conflictingAppointments, preferredHours, machines,
                                  allAppointmentsForLoad)))

----------------------------------------------------------------------------
(* AvailabilityService (overlap-weighted): groupSlotsByEfficiency *)

\* ranges: max Infinity is finite |-> FALSE
ranges ==
    << [max |-> 10, finite |-> TRUE, label |-> "Optimo", id |-> "optimal"],
       [max |-> 30, finite |-> TRUE, label |-> "Bueno", id |-> "good"],
       [max |-> 50, finite |-> TRUE, label |-> "Regular", id |-> "regular"],
       [max |-> 500, finite |-> TRUE, label |-> "Alto", id |-> "high"],
       [max |-> 0, finite |-> FALSE, label |-> "Muy Alto", id |-> "very-high"] >>

\* lowestPower > 0 ? ((power - lowestPower) / lowestPower) * 100 : 0
groupPct(power, lowestPower) ==
    IF RLt(RZero, lowestPower)
    THEN RMul(RDiv(RSub(power, lowestPower), lowestPower), RInt(100))
    ELSE RZero

\* (a variant of inRange without the lower end of the band)
inRangeBelow(pct, rangeTable, idx) ==
    ~rangeTable[idx].finite \/ RLt(pct, RInt(rangeTable[idx].max))

\* pct >= prevMax && pct < range.max
inRange(pct, rangeTable, idx) ==
    LET prevMax == IF idx > 1 THEN rangeTable[idx - 1].max ELSE 0
    IN  /\ RLe(RInt(prevMax), pct)
        /\ (~rangeTable[idx].finite \/ RLt(pct, RInt(rangeTable[idx].max)))

\* (min, s) => timeToMinutes(s.start_time) < timeToMinutes(min) ? s.start_time : min
earlierStart(min, s) ==
    IF timeToMinutes(s.start_time) < timeToMinutes(min) THEN s.start_time ELSE min

\* (max, s) => timeToMinutes(s.end_time) > timeToMinutes(max) ? s.end_time : max
laterEnd(max, s) ==
    IF timeToMinutes(s.end_time) > timeToMinutes(max) THEN s.end_time ELSE max

\* rangeSlots.reduce(earlierStart, rangeSlots[0].start_time)
earliestStart(rangeSlots) ==
    LET acc[i \in 0..Len(rangeSlots)] ==
            IF i = 0 THEN rangeSlots[1].start_time
            ELSE earlierStart(acc[i - 1], rangeSlots[i])
    IN  acc[Len(rangeSlots)]

\* rangeSlots.reduce(laterEnd, rangeSlots[0].end_time)
latestEnd(rangeSlots) ==
    LET acc[i \in 0..Len(rangeSlots)] ==
            IF i = 0 THEN rangeSlots[1].end_time
            ELSE laterEnd(acc[i - 1], rangeSlots[i])
    IN  acc[Len(rangeSlots)]

\* groups.push({ id, label, power_spike_percentage: Math.round(avgPct), .. })
groupRecord(range, rangeSlots, lowestPower, avgPower) ==
    [id |-> range.id,
     label |-> range.label,
     power_spike_percentage |-> MathRound(groupPct(avgPower, lowestPower)),
     time_range |-> <<earliestStart(rangeSlots), latestEnd(rangeSlots)>>,
     slots |-> rangeSlots,
     average_power_consumption |-> avgPower]

\* the group pushed for one range with at least one slot
groupOf(range, rangeSlots, lowestPower) ==
    groupRecord(range, rangeSlots, lowestPower,
                RDiv(Sum(powersOf(rangeSlots)),
                     RInt(Len(rangeSlots))))

\* sorted.filter(slot => pct >= prevMax && pct < range.max)
rangeSlotsOf(sorted, lowestPower, idx) ==
    SelectSeq(sorted,
              LAMBDA slot : inRange(groupPct(slot.power_consumption, lowestPower),
                                    ranges, idx))

\* if (rangeSlots.length > 0) groups.push(..)
pushGroup(groups, range, rangeSlots, lowestPower) ==
    IF Len(rangeSlots) > 0
    THEN Append(groups, groupOf(range, rangeSlots, lowestPower))
    ELSE groups

\* ranges.forEach over the sorted copy
groupSorted(sorted) ==
    LET lowestPower == sorted[1].power_consumption
        groups[idx \in 0..Len(ranges)] ==
            IF idx = 0 THEN <<>>
            ELSE pushGroup(groups[idx - 1], ranges[idx],
                           rangeSlotsOf(sorted, lowestPower, idx), lowestPower)
    IN  groups[Len(ranges)]

groupSlotsByEfficiency(timeSlots) ==
    IF Len(timeSlots) = 0 THEN <<>> ELSE groupSorted(sortSlots(timeSlots))


----------------------------------------------------------------------------
(* AppointmentService: the writes to prisma.appointment *)

MaxAppointments == 2

\* A write is served while no call runs or while a call awaits a query; what
\* follows a call's last query runs to its return without yielding.
betweenCalls == pc \in {"idle", "load"}

\* prisma.appointment.create({ data: { ...data, machines: { connect } } })
create(input) ==
    /\ betweenCalls
    /\ Len(appointments) < MaxAppointments
    /\ input.machineIds \subseteq MachineIds
    /\ appointments' = Append(appointments,
            [id |-> Len(appointments) + 1,
             laboratory_id |-> input.laboratory_id,
             appointment_date |-> input.appointment_date,
             start_time |-> input.start_time,
             end_time |-> input.end_time,
             status |-> input.status,
             power_consumption |-> input.power_consumption,
             machines |-> input.machineIds])
    /\ UNCHANGED <<pc, service, options, conflictRows, loadRows, seenConflicts,
                   seenLoad, seenMock, result>>

\* What AppointmentService.update may be asked for: a status (<<>> when the
\* data carries none), setMachineIds (<<>> when absent), addMachineIds and
\* removeMachineIds ({} when absent or empty). A call that both adds and
\* removes names different machines in the two, so the order in which the
\* store applies them does not show.
Cancellation ==
    [status |-> <<"cancelled">>, setMachineIds |-> <<>>,
     addMachineIds |-> {}, removeMachineIds |-> {}]

Relinkings ==
    { [status |-> <<>>, setMachineIds |-> <<{1}>>,
       addMachineIds |-> {}, removeMachineIds |-> {}],
      [status |-> <<>>, setMachineIds |-> <<>>,
       addMachineIds |-> {1}, removeMachineIds |-> {2, 3}] }

\* the update calls made: the first appointment has its machines changed,
\* a later one is cancelled
UpdateCalls ==
    { [id |-> 1, input |-> input] : input \in Relinkings }
    \cup { [id |-> id, input |-> Cancellation] : id \in 2..MaxAppointments }

\* machines: { set, connect, disconnect } on the rows of _AppointmentMachines
machinesAfter(row, input) ==
    ((IF input.setMachineIds # <<>> THEN input.setMachineIds[1]
                                    ELSE row.machines)
        \cup input.addMachineIds) \ input.removeMachineIds

\* the row after the update: the scalars of data and the relation operations
updated(row, input) ==
    [row EXCEPT !.status = IF input.status # <<>> THEN input.status[1] ELSE @,
                !.machines = machinesAfter(row, input)]

\* prisma.appointment.update({ where: { id }, data: { ...data, machines } })
update(id, input) ==
    /\ betweenCalls
    /\ id \in 1..Len(appointments)
    /\ updated(appointments[id], input) # appointments[id]
    /\ appointments' = [appointments EXCEPT ![id] = updated(appointments[id], input)]
    /\ UNCHANGED <<pc, service, options, conflictRows, loadRows, seenConflicts,
                   seenLoad, seenMock, result>>

----------------------------------------------------------------------------
(* AvailabilityService (overlap-weighted): checkAvailability *)

\* the defensive return for an empty machine set
EmptyResult ==
    [timeSlots |-> <<>>,
     recommendations |-> [energyEfficientSlots |-> <<>>],
     totalDayConsumption |-> 0,
     peakHours |-> <<>>,
     efficiencyGroups |-> <<>>]

NoResult == [timeSlots |-> <<>>, efficiencyGroups |-> <<>>]

\* what the call returns from the rows its two appointment queries fetched
\* return { timeSlots, efficiencyGroups }
resultOf(timeSlots) ==
    [timeSlots |-> timeSlots,
     efficiencyGroups |-> groupSlotsByEfficiency(timeSlots)]

availabilityResult(opts, conflicting, allForLoad) ==
    resultOf(generateTimeSlots(targetMachineIds(opts), durationOf(opts),
                               toLight(conflicting),
                               preferredHoursOf(getDay(opts.date)),
                               machinesOf(opts), toLight(allForLoad)))

\* entry: destructure the options, normalise the machine ids, return early
\* for an empty machine set, else await the first prisma.appointment.findMany
\* (the appointments of the requested machines)
checkAvailabilityConflicts(opts) ==
    /\ pc = "idle"
    /\ service' = "weighted"
    /\ options' = opts
    /\ loadRows' = <<>>
    /\ seenLoad' = <<>>
    /\ seenMock' = <<>>
    /\ IF targetMachineIds(opts) = {}
       THEN /\ pc' = "done"
            /\ result' = EmptyResult
            /\ conflictRows' = <<>>
            /\ seenConflicts' = <<>>
       ELSE /\ pc' = "load"
            /\ result' = NoResult
            /\ conflictRows' \in orderings(findConflicting(appointments, opts))
            /\ seenConflicts' = appointments
    /\ UNCHANGED appointments

\* await the second prisma.appointment.findMany (all appointments of the day),
\* then the preferred hours and the machines (tables nothing writes), then
\* generateTimeSlots, groupSlotsByEfficiency and the return
checkAvailabilityLoad ==
    /\ pc = "load"
    /\ service = "weighted"
    /\ loadRows' \in orderings(findAllForLoad(appointments, options))
    /\ seenLoad' = appointments
    /\ result' = availabilityResult(options, conflictRows, loadRows')
    /\ pc' = "done"
    /\ UNCHANGED <<appointments, service, options, conflictRows, seenConflicts,
                   seenMock>>

----------------------------------------------------------------------------
(* AvailabilityService of app/services: one appointment query, and the     *)
(* preferred-hour average in place of the overlap weights                  *)

\* timeFromDate(d): getHours() and getMinutes() as "HH:MM", no offset added
app_timeFromDate(stored) == <<getHours(stored), getMinutes(stored)>>

app_ExistingAppointmentLight(a) ==
    [start_time |-> app_timeFromDate(a.start_time),
     end_time |-> app_timeFromDate(a.end_time),
     power_consumption |->
        IF a.power_consumption = <<>> THEN Number(0)
        ELSE Number(a.power_consumption[1]),
     status |-> a.status]

app_toLight(rows) ==
    [i \in 1..Len(rows) |-> app_ExistingAppointmentLight(rows[i])]

app_preferredHoursOf(dayOfWeek) ==
    LET rows == SelectSeq(PreferredHourTable, LAMBDA p : p.day_of_week = dayOfWeek)
    IN  [i \in 1..Len(rows) |->
            [day_of_week |-> rows[i].day_of_week,
             start_time |-> app_timeFromDate(rows[i].start_time),
             end_time |-> app_timeFromDate(rows[i].end_time),
             power_consumption |-> Number(rows[i].power_consumption)]]

timeWithinRange(slotStart, slotEnd, rangeStart, rangeEnd) ==
    /\ timeToMinutes(slotStart) >= timeToMinutes(rangeStart)
    /\ timeToMinutes(slotEnd) <= timeToMinutes(rangeEnd)

\* the hour is given as its number of minutes
calculateNonPreferredHourConsumption(hour) ==
    IF (hour >= 10 * 60 /\ hour < 12 * 60) \/ (hour >= 14 * 60 /\ hour < 16 * 60)
    THEN Rat(5, 2)
    ELSE IF hour >= 8 * 60 /\ hour < 10 * 60 THEN Rat(3, 2)
    ELSE RInt(2)

\* preferredHours.filter(pref => timeWithinRange(..) || timeSlotsOverlap(..))
overlappingPreferredHours(startTime, endTime, preferredHours) ==
    SelectSeq(preferredHours,
              LAMBDA pref :
                  \/ timeWithinRange(startTime, endTime, pref.start_time, pref.end_time)
                  \/ timeSlotsOverlap(startTime, endTime, pref.start_time, pref.end_time))

\* let powerConsumption = totalMachinePower; then += the average of the
\* overlapping preferred hours, or += calculateNonPreferredHourConsumption
app_powerConsumption(startHour, machinePower, overlapping) ==
    IF Len(overlapping) > 0
    THEN RAdd(machinePower,
              RDiv(Sum(powersOf(overlapping)),
                   RInt(Len(overlapping))))
    ELSE RAdd(machinePower, calculateNonPreferredHourConsumption(startHour))

\* the body of the for loop once startTime and endTime are formatted
app_slotBetween(startHour, startTime, endTime, machineIds, existingAppointments, preferredHours, machines) ==
    slotOf(startTime, endTime, machineIds,
           hasConflict(startTime, endTime, existingAppointments),
           app_powerConsumption(startHour, totalMachinePower(machines),
                                overlappingPreferredHours(startTime, endTime,
                                                          preferredHours)))

\* for (startHour = START; startHour + duration <= END; startHour += increment)
RECURSIVE app_slotLoop(_, _, _, _, _, _)
app_slotLoop(startHour, machineIds, duration, existingAppointments, preferredHours, machines) ==
    IF startHour + duration <= WORKING_HOURS_END * 60
    THEN <<app_slotBetween(startHour, formatTime(startHour),
                           formatTime(startHour + duration), machineIds,
                           existingAppointments, preferredHours, machines)>>
         \o app_slotLoop(startHour + SLOT_INCREMENT_MINUTES, machineIds, duration,
                         existingAppointments, preferredHours, machines)
    ELSE <<>>

\* lowestPower > 0 ? ((power - lowestPower) / lowestPower) * 100 : 0
app_spikeOf(power, lowestPower) ==
    IF RLt(RZero, lowestPower)
    THEN RMul(RDiv(RSub(power, lowestPower), lowestPower), RInt(100))
    ELSE RZero

app_withSpikes(sortedSlots) ==
    LET lowestPower == IF Len(sortedSlots) > 0 THEN sortedSlots[1].power_consumption
                       ELSE RZero
    IN  [i \in 1..Len(sortedSlots) |->
            [sortedSlots[i] EXCEPT !.power_spike_percentage =
                app_spikeOf(sortedSlots[i].power_consumption, lowestPower)]]

app_generateTimeSlots(machineIds, duration, existingAppointments, preferredHours, machines) ==
    app_withSpikes(sortSlots(app_slotLoop(WORKING_HOURS_START * 60, machineIds,
                                          duration, existingAppointments,
                                          preferredHours, machines)))

\* timeSlots.filter(slot => power > PEAK_CONSUMPTION_THRESHOLD).map(start-end)
identifyPeakHours(timeSlots) ==
    LET peaks == SelectSeq(timeSlots,
                           LAMBDA slot : RLt(RInt(PEAK_CONSUMPTION_THRESHOLD),
                                             slot.power_consumption))
    IN  [i \in 1..Len(peaks) |-> <<peaks[i].start_time, peaks[i].end_time>>]

\* existingConsumption + potentialConsumption, the latter 0.3 of the power of
\* the available slots
calculateTotalDayConsumption(existingAppointments, availableSlots) ==
    RAdd(Sum(powersOf(existingAppointments)),
         RMul(Sum(powersOf(SelectSeq(availableSlots, LAMBDA slot : slot.available))),
              Rat(3, 10)))

\* timeSlots.filter(slot => slot.available)
availableSlotsOf(timeSlots) == SelectSeq(timeSlots, LAMBDA slot : slot.available)

\* (a, b) => a.power_consumption - b.power_consumption, as its sign
comparePower(a, b) ==
    IF a.power_consumption = b.power_consumption THEN 0
    ELSE IF RLt(a.power_consumption, b.power_consumption) THEN -1 ELSE 1

\* one element put in its place by comparePower, behind its equals
powerInsert(sorted, x) ==
    insertAfter(sorted, x,
                lastIndex({j \in 1..Len(sorted) : comparePower(sorted[j], x) <= 0}))

\* slots.sort(comparePower): the comparator is consistent, the sort is stable
sortByPower(slots) ==
    LET acc[i \in 0..Len(slots)] ==
            IF i = 0 THEN <<>> ELSE powerInsert(acc[i - 1], slots[i])
    IN  acc[Len(slots)]

\* s.slice(0, n)
sliceFirst(s, n) == SubSeq(s, 1, Min2(n, Len(s)))

\* (a variant of energyEfficientSlotsOf that keeps every slot of the sort)
energyEfficientSlotsUncut(availableSlots) ==
    sortByPower(SelectSeq(availableSlots,
                          LAMBDA slot : RLe(slot.power_consumption, RInt(3))))

\* availableSlots.filter(power <= 3.0).sort(comparePower).slice(0, 3)
energyEfficientSlotsOf(availableSlots) ==
    sliceFirst(sortByPower(SelectSeq(availableSlots,
                                     LAMBDA slot : RLe(slot.power_consumption, RInt(3)))),
               3)

\* (a variant of compareBest that compares the start times only)
compareStartOnly(a, b) == timeToMinutes(a.start_time) - timeToMinutes(b.start_time)

\* powerDiff = a.power - b.power; if (Math.abs(powerDiff) > 0.5) return
\* powerDiff; return timeA - timeB: as its sign, or the difference of minutes
compareBest(a, b) ==
    IF RLt(Rat(1, 2), RSub(a.power_consumption, b.power_consumption)) THEN 1
    ELSE IF RLt(Rat(1, 2), RSub(b.power_consumption, a.power_consumption)) THEN -1
    ELSE timeToMinutes(a.start_time) - timeToMinutes(b.start_time)

\* Array.prototype.sort with compareBest, which is no consistent comparator:
\* the order is the engine's.  V8 sorts an array of fewer than 64 elements by
\* finding its leading run, reversing it when it descends, and inserting the
\* rest by binary search.
\* the length of the leading run of at least two elements
runLengthOf(work, isDescending) ==
    CHOOSE r \in 2..Len(work) :
        /\ \A idx \in 3..r :
               IF isDescending THEN compareBest(work[idx], work[idx - 1]) < 0
               ELSE compareBest(work[idx], work[idx - 1]) >= 0
        /\ r < Len(work)
           => IF isDescending THEN compareBest(work[r + 1], work[r]) >= 0
              ELSE compareBest(work[r + 1], work[r]) < 0

\* s.reverse()
reversed(s) == [i \in 1..Len(s) |-> s[Len(s) + 1 - i]]

\* the array with its leading run of the length made ascending
withRunMade(work, isDescending, runLength) ==
    IF isDescending
    THEN reversed(SubSeq(work, 1, runLength)) \o SubSeq(work, runLength + 1, Len(work))
    ELSE work

\* the binary search of the insertion: the number of elements of
\* work[left + 1 .. right] the pivot goes behind, added to left
RECURSIVE insertionPoint(_, _, _, _)
insertionPoint(work, pivot, left, right) ==
    IF left < right
    THEN IF compareBest(pivot, work[left + (right - left) \div 2 + 1]) < 0
         THEN insertionPoint(work, pivot, left, left + (right - left) \div 2)
         ELSE insertionPoint(work, pivot, left + (right - left) \div 2 + 1, right)
    ELSE left

\* the element behind the sorted prefix of the length put into the prefix
insertedAt(work, start, left) ==
    SubSeq(work, 1, left) \o <<work[start + 1]>> \o SubSeq(work, left + 1, start)
        \o SubSeq(work, start + 2, Len(work))

binaryInsert(work, start) ==
    insertedAt(work, start, insertionPoint(work, work[start + 1], 0, start))

\* the insertions from the end of the leading run to the end of the array
binaryInsertionSort(work, runLength) ==
    LET acc[start \in (runLength - 1)..(Len(work) - 1)] ==
            IF start = runLength - 1 THEN work ELSE binaryInsert(acc[start - 1], start)
    IN  acc[Len(work) - 1]

sortRun(work, isDescending, runLength) ==
    binaryInsertionSort(withRunMade(work, isDescending, runLength), runLength)

sortDirected(work, isDescending) ==
    sortRun(work, isDescending, runLengthOf(work, isDescending))

\* [...availableSlots].sort(compareBest)
sortByBest(availableSlots) ==
    IF Len(availableSlots) < 2 THEN availableSlots
    ELSE sortDirected(availableSlots,
                      compareBest(availableSlots[2], availableSlots[1]) < 0)

\* sorted[0]: a one-element sequence, empty for undefined
firstOf(sorted) == IF Len(sorted) = 0 THEN <<>> ELSE <<sorted[1]>>

\* (a variant of generateAlternativeDates that keeps the weekend days)
generateAlternativeDatesAnyDay(date) == <<date + 1, date + 2, date + 3>>

\* the days date + 1 .. date + 7 that are no Sunday and no Saturday, the first 3
generateAlternativeDates(date) ==
    sliceFirst(SelectSeq([i \in 1..7 |-> date + i],
                         LAMBDA nextDate : getDay(nextDate) # 0 /\ getDay(nextDate) # 6),
               3)

\* availableSlots.length < 3 ? generateAlternativeDates(..) : undefined: a
\* one-element sequence, empty for undefined
alternativeDatesOf(availableSlots, date) ==
    IF Len(availableSlots) < 3 THEN <<generateAlternativeDates(date)>> ELSE <<>>

\* return { bestSlot, energyEfficientSlots, alternativeDates }
recommendationsOf(availableSlots, date) ==
    [bestSlot |-> firstOf(sortByBest(availableSlots)),
     energyEfficientSlots |-> energyEfficientSlotsOf(availableSlots),
     alternativeDates |-> alternativeDatesOf(availableSlots, date)]

generateRecommendations(timeSlots, date) ==
    recommendationsOf(availableSlotsOf(timeSlots), date)

\* ranges of app/services groupSlotsByEfficiency: max Infinity is finite |-> FALSE
app_ranges ==
    << [max |-> 5, finite |-> TRUE, label |-> "Optimo", id |-> "optimal"],
       [max |-> 15, finite |-> TRUE, label |-> "Bueno", id |-> "good"],
       [max |-> 30, finite |-> TRUE, label |-> "Regular", id |-> "regular"],
       [max |-> 50, finite |-> TRUE, label |-> "Alto", id |-> "high"],
       [max |-> 0, finite |-> FALSE, label |-> "Muy Alto", id |-> "very-high"] >>

\* sorted.filter(slot => pct >= prevMax && pct < range.max)
app_rangeSlotsOf(sorted, lowestPower, idx) ==
    SelectSeq(sorted,
              LAMBDA slot : inRange(groupPct(slot.power_consumption, lowestPower),
                                    app_ranges, idx))

\* groups.push({ .., time_range: `${firstSlot.start_time} - ${lastSlot.end_time}`, .. })
app_groupRecord(range, rangeSlots, lowestPower, avgPower) ==
    [id |-> range.id,
     label |-> range.label,
     power_spike_percentage |-> MathRound(groupPct(avgPower, lowestPower)),
     time_range |-> <<rangeSlots[1].start_time,
                      rangeSlots[Len(rangeSlots)].end_time>>,
     slots |-> rangeSlots,
     average_power_consumption |-> avgPower]

\* if (rangeSlots.length > 0) groups.push(..)
app_pushGroup(groups, range, rangeSlots, lowestPower) ==
    IF Len(rangeSlots) > 0
    THEN Append(groups,
                app_groupRecord(range, rangeSlots, lowestPower,
                                RDiv(Sum(powersOf(rangeSlots)),
                                     RInt(Len(rangeSlots)))))
    ELSE groups

\* ranges.forEach over the sorted copy
app_groupSorted(sorted) ==
    LET lowestPower == sorted[1].power_consumption
        groups[idx \in 0..Len(app_ranges)] ==
            IF idx = 0 THEN <<>>
            ELSE app_pushGroup(groups[idx - 1], app_ranges[idx],
                               app_rangeSlotsOf(sorted, lowestPower, idx),
                               lowestPower)
    IN  groups[Len(app_ranges)]

app_groupSlotsByEfficiency(timeSlots) ==
    IF Len(timeSlots) = 0 THEN <<>> ELSE app_groupSorted(sortSlots(timeSlots))

\* the response of the call
app_resultOf(existingAppointments, timeSlots, date) ==
    [timeSlots |-> timeSlots,
     recommendations |-> generateRecommendations(timeSlots, date),
     totalDayConsumption |->
        calculateTotalDayConsumption(existingAppointments, timeSlots),
     peakHours |-> identifyPeakHours(timeSlots),
     efficiencyGroups |-> app_groupSlotsByEfficiency(timeSlots)]

app_resultFrom(opts, existingAppointments) ==
    app_resultOf(existingAppointments,
                 app_generateTimeSlots(targetMachineIds(opts), durationOf(opts),
                                       existingAppointments,
                                       app_preferredHoursOf(getDay(opts.date)),
                                       machinesOf(opts)),
                 opts.date)

app_availabilityResult(opts, dbAppointments) ==
    app_resultFrom(opts, app_toLight(dbAppointments))

\* the whole call: the defensive return, else the appointment query, the
\* preferred hours and the machines (tables nothing writes), the slots, the
\* analytics and the return
app_checkAvailability(opts) ==
    /\ pc = "idle"
    /\ pc' = "done"
    /\ service' = "app"
    /\ options' = opts
    /\ conflictRows' = <<>>
    /\ loadRows' = <<>>
    /\ seenLoad' = <<>>
    /\ seenMock' = <<>>
    /\ IF targetMachineIds(opts) = {}
       THEN /\ result' = EmptyResult
            /\ seenConflicts' = <<>>
       ELSE /\ \E dbAppointments \in orderings(findConflicting(appointments, opts)) :
                   result' = app_availabilityResult(opts, dbAppointments)
            /\ seenConflicts' = appointments
    /\ UNCHANGED appointments

----------------------------------------------------------------------------
(* GET /api/availability: the route in front of the app/services service   *)

\* the query strings: a parameter is <<>> when absent, the date a day number,
\* the duration in minutes
RequestSet ==
    { [date |-> <<1>>, laboratory_id |-> <<1>>, machine_ids |-> {0, 1, 2},
       duration |-> <<>>],
      [date |-> <<>>, laboratory_id |-> <<1>>, machine_ids |-> {1},
       duration |-> <<120>>],
      [date |-> <<1>>, laboratory_id |-> <<>>, machine_ids |-> {1},
       duration |-> <<120>>],
      [date |-> <<1>>, laboratory_id |-> <<0>>, machine_ids |-> {1},
       duration |-> <<120>>],
      [date |-> <<1>>, laboratory_id |-> <<1>>, machine_ids |-> {},
       duration |-> <<120>>],
      [date |-> <<1>>, laboratory_id |-> <<1>>, machine_ids |-> {0},
       duration |-> <<120>>],
      [date |-> <<1>>, laboratory_id |-> <<1>>, machine_ids |-> {1},
       duration |-> <<0>>],
      [date |-> <<1>>, laboratory_id |-> <<1>>, machine_ids |-> {1},
       duration |-> <<-30>>] }

\* ids.filter(n => Number.isFinite(n) && n > 0), deduplicated
parseMachineIds(values) == {n \in values : n > 0}

\* durationStr ? Number.parseInt(durationStr, 10) : 30
durationMinutesOf(request) ==
    IF request.duration = <<>> THEN 30 ELSE request.duration[1]

\* NextResponse.json({ error }, { status: 400 })
BadRequest(error) == [error |-> error, status |-> 400]

\* the checks of the handler in their order: <<response>> of the first that
\* fails, <<>> when all pass
rejectionOf(request) ==
    IF request.date = <<>> \/ request.laboratory_id = <<>>
    THEN <<BadRequest("Faltan parametros requeridos: date, laboratory_id")>>
    ELSE IF parseMachineIds(request.machine_ids) = {}
    THEN <<BadRequest("Se requiere al menos una maquina")>>
    ELSE IF request.laboratory_id[1] <= 0
    THEN <<BadRequest("laboratory_id invalido")>>
    ELSE IF durationMinutesOf(request) <= 0
    THEN <<BadRequest("duration invalida")>>
    ELSE <<>>

\* the request as the handler read it, in the shape of the service's options
requestRead(request) ==
    [date |-> IF request.date = <<>> THEN 0 ELSE request.date[1],
     laboratoryId |->
        IF request.laboratory_id = <<>> THEN 0 ELSE request.laboratory_id[1],
     machineId |-> 0,
     machineIds |-> parseMachineIds(request.machine_ids),
     duration |-> request.duration]

\* checkAvailability({ date: targetDate, laboratoryId, machineIds,
\*                     duration: durationHours })
serviceOptions(request) ==
    [requestRead(request) EXCEPT !.duration = <<durationMinutesOf(request)>>]

\* the handler: a 400 response before the service is called, else the
\* service's result as the data of the 200 response
GET(request) ==
    /\ pc = "idle"
    /\ pc' = "done"
    /\ service' = "route"
    /\ conflictRows' = <<>>
    /\ loadRows' = <<>>
    /\ seenLoad' = <<>>
    /\ seenMock' = <<>>
    /\ IF rejectionOf(request) # <<>>
       THEN /\ options' = requestRead(request)
            /\ result' = rejectionOf(request)[1]
            /\ seenConflicts' = <<>>
       ELSE /\ options' = serviceOptions(request)
            /\ \E dbAppointments \in orderings(findConflicting(appointments,
                                                      serviceOptions(request))) :
                   result' = app_availabilityResult(serviceOptions(request),
                                                    dbAppointments)
            /\ seenConflicts' = appointments
    /\ UNCHANGED appointments

----------------------------------------------------------------------------
(* lib/mock-data and AvailabilityService of lib/availability-service       *)

mockMachines ==
    << [id |-> 1, laboratory_id |-> 1, power_consumption |-> <<5, 2>>],
       [id |-> 2, laboratory_id |-> 1, power_consumption |-> <<9, 5>>],
       [id |-> 3, laboratory_id |-> 2, power_consumption |-> <<16, 5>>],
       [id |-> 4, laboratory_id |-> 2, power_consumption |-> <<1, 2>>],
       [id |-> 5, laboratory_id |-> 3, power_consumption |-> <<4, 1>>],
       [id |-> 6, laboratory_id |-> 3, power_consumption |-> <<4, 5>>] >>

mockPreferredHours ==
    << [day_of_week |-> 1, start_time |-> <<8, 0>>, end_time |-> <<10, 0>>,
        power_consumption |-> <<111, 2>>],
       [day_of_week |-> 1, start_time |-> <<14, 0>>, end_time |-> <<16, 0>>,
        power_consumption |-> <<401, 2>>],
       [day_of_week |-> 2, start_time |-> <<9, 0>>, end_time |-> <<11, 0>>,
        power_consumption |-> <<2, 1>>],
       [day_of_week |-> 3, start_time |-> <<10, 0>>, end_time |-> <<12, 0>>,
        power_consumption |-> <<7, 2>>] >>

\* The two appointments mock-data ships (a Friday and the Saturday after it).
app1 ==
    [laboratory_id |-> 1, machine_id |-> 1, appointment_date |-> 5,
     start_time |-> <<9, 0>>, end_time |-> <<11, 0>>, status |-> "confirmed",
     power_consumption |-> <<5, 2>>]

app2 ==
    [laboratory_id |-> 2, machine_id |-> 3, appointment_date |-> 6,
     start_time |-> <<14, 0>>, end_time |-> <<16, 0>>, status |-> "pending",
     power_consumption |-> <<16, 5>>]

\* An appointment as POST /api/appointments pushes it: pending, power 0.
posted ==
    [laboratory_id |-> 1, machine_id |-> 2, appointment_date |-> 5,
     start_time |-> <<10, 0>>, end_time |-> <<12, 0>>, status |-> "pending",
     power_consumption |-> <<0, 1>>]

\* Appointments of the Appointment type whose status is cancelled.
cancelled1 ==
    [laboratory_id |-> 1, machine_id |-> 1, appointment_date |-> 5,
     start_time |-> <<13, 0>>, end_time |-> <<15, 0>>, status |-> "cancelled",
     power_consumption |-> <<5, 2>>]

cancelled2 ==
    [laboratory_id |-> 2, machine_id |-> 3, appointment_date |-> 6,
     start_time |-> <<8, 0>>, end_time |-> <<18, 0>>, status |-> "cancelled",
     power_consumption |-> <<16, 5>>]

\* The contents of the mockAppointments array a call may find.
MockSnapshots ==
    { <<app1, app2>>,
      <<app1, app2, posted>>,
      <<app1, app2, cancelled1>>,
      <<app1, cancelled2, app2, posted, cancelled1>>,
      <<cancelled1, cancelled2>> }

\* The AvailabilityOptions a caller of the lib service may pass.
MockOptionsSet ==
    { [date |-> 5, laboratoryId |-> 1, machineId |-> 0, machineIds |-> {1},
       duration |-> <<480>>],
      [date |-> 5, laboratoryId |-> 1, machineId |-> 0, machineIds |-> {1, 2},
       duration |-> <<480>>],
      [date |-> 6, laboratoryId |-> 2, machineId |-> 3, machineIds |-> {},
       duration |-> <<480>>],
      [date |-> 1, laboratoryId |-> 1, machineId |-> 0, machineIds |-> {},
       duration |-> <<480>>] }

\* mockAppointments.filter(sameDate && sameLab && machineConflict && notCancelled)
getExistingAppointments(store, date, laboratoryId, machineIds) ==
    SelectSeq(store,
              LAMBDA appointment :
                  /\ appointment.appointment_date = date
                  /\ appointment.laboratory_id = laboratoryId
                  /\ appointment.machine_id \in machineIds
                  /\ appointment.status # "cancelled")

\* mockPreferredHours.filter(pref => pref.day_of_week === dayOfWeek)
getPreferredHours(dayOfWeek) ==
    SelectSeq(mockPreferredHours, LAMBDA pref : pref.day_of_week = dayOfWeek)

\* mockMachines.filter(m => targetMachineIds.includes(m.id))
lib_machinesOf(opts) ==
    SelectSeq(mockMachines, LAMBDA m : m.id \in targetMachineIds(opts))

\* generateTimeSlots of lib/availability-service: the code of app/services
lib_generateTimeSlots(machineIds, duration, existingAppointments, preferredHours, machines) ==
    app_generateTimeSlots(machineIds, duration, existingAppointments,
                          preferredHours, machines)

lib_resultFrom(opts, existingAppointments) ==
    app_resultOf(existingAppointments,
                 lib_generateTimeSlots(targetMachineIds(opts), durationOf(opts),
                                       existingAppointments,
                                       getPreferredHours(getDay(opts.date)),
                                       lib_machinesOf(opts)),
                 opts.date)

lib_availabilityResult(opts, store) ==
    lib_resultFrom(opts, getExistingAppointments(store, opts.date,
                                                 opts.laboratoryId,
                                                 targetMachineIds(opts)))

\* the whole call, on the mockAppointments array as it finds it
lib_checkAvailability(opts, snapshot) ==
    /\ pc = "idle"
    /\ pc' = "done"
    /\ service' = "lib"
    /\ options' = opts
    /\ conflictRows' = <<>>
    /\ loadRows' = <<>>
    /\ seenConflicts' = <<>>
    /\ seenLoad' = <<>>
    /\ seenMock' = snapshot
    /\ result' = lib_availabilityResult(opts, snapshot)
    /\ UNCHANGED appointments

----------------------------------------------------------------------------
(* PowerOptimizationService: generateEnergyProfile *)

MAX_DAILY_CAPACITY == 50
OFF_PEAK_DISCOUNT == Rat(4, 5)

getBaseLaboratoryConsumption(hour) ==
    IF hour >= 0 /\ hour < 6 THEN Rat(1, 2)
    ELSE IF hour >= 6 /\ hour < 8 THEN RInt(1)
    ELSE IF hour >= 8 /\ hour < 18 THEN RInt(2)
    ELSE IF hour >= 18 /\ hour < 22 THEN Rat(3, 2)
    ELSE Rat(4, 5)

\* Number.parseInt(time.split(":")[0])
hourOf(time) == time[1]

\* hour >= startHour && hour < endHour
coversHour(entry, hour) ==
    hour >= hourOf(entry.start_time) /\ hour < hourOf(entry.end_time)

\* mockAppointments.filter(same laboratory, same day, status !== "cancelled")
profileAppointments(store, laboratoryId, date) ==
    SelectSeq(store,
              LAMBDA apt :
                  /\ apt.laboratory_id = laboratoryId
                  /\ apt.appointment_date = date
                  /\ apt.status # "cancelled")

\* pref.laboratory_id of a PreferredHour, which has no such field: undefined,
\* here 0, the id of no laboratory
laboratoryIdOf(pref) ==
    IF "laboratory_id" \in DOMAIN pref THEN pref.laboratory_id ELSE 0

\* mockPreferredHours.filter(pref.laboratory_id === laboratoryId && same day)
profilePreferredHours(laboratoryId, dayOfWeek) ==
    SelectSeq(mockPreferredHours,
              LAMBDA pref :
                  /\ laboratoryIdOf(pref) = laboratoryId
                  /\ pref.day_of_week = dayOfWeek)

\* if (isPreferredHour) consumption *= OFF_PEAK_DISCOUNT
discounted(consumption, isPreferredHour) ==
    IF isPreferredHour THEN RMul(consumption, OFF_PEAK_DISCOUNT) ELSE consumption

\* the body of the hour loop
hourConsumption(hour, existingAppointments, preferredHours) ==
    discounted(
        RAdd(getBaseLaboratoryConsumption(hour),
             Sum(powersOf(SelectSeq(existingAppointments,
                                    LAMBDA apt : coversHour(apt, hour))))),
        \E i \in 1..Len(preferredHours) : coversHour(preferredHours[i], hour))

\* entries.map(h => h.hour)
hoursOf(entries) == [i \in 1..Len(entries) |-> entries[i].hour]

\* hourlyConsumption.filter(h => h.consumption > avgConsumption * 1.2)
peakHoursOf(hourlyConsumption, avgConsumption) ==
    hoursOf(SelectSeq(hourlyConsumption,
                      LAMBDA h : RLt(RMul(avgConsumption, Rat(6, 5)), h.consumption)))

\* hourlyConsumption.filter(h => h.consumption < avgConsumption * 0.8)
optimalHoursOf(hourlyConsumption, avgConsumption) ==
    hoursOf(SelectSeq(hourlyConsumption,
                      LAMBDA h : RLt(h.consumption, RMul(avgConsumption, Rat(4, 5)))))

\* avgConsumption, the peak and optimal hours, the capacity utilization
profileOf(laboratoryId, date, hourlyConsumption, totalDayConsumption) ==
    [laboratoryId |-> laboratoryId,
     date |-> date,
     hourlyConsumption |-> hourlyConsumption,
     peakHours |->
        peakHoursOf(hourlyConsumption, RDiv(totalDayConsumption, RInt(24))),
     optimalHours |->
        optimalHoursOf(hourlyConsumption, RDiv(totalDayConsumption, RInt(24))),
     totalDayConsumption |-> totalDayConsumption,
     capacityUtilization |->
        RMul(RDiv(totalDayConsumption, RInt(MAX_DAILY_CAPACITY)), RInt(100))]

\* totalDayConsumption += consumption, hour after hour
profileFrom(laboratoryId, date, hourlyConsumption) ==
    profileOf(laboratoryId, date, hourlyConsumption,
              Sum([i \in 1..Len(hourlyConsumption) |->
                      hourlyConsumption[i].consumption]))

hourlyFrom(existingAppointments, preferredHours) ==
    [i \in 1..24 |->
        [hour |-> i - 1,
         consumption |-> hourConsumption(i - 1, existingAppointments,
                                         preferredHours)]]

energyProfile(laboratoryId, date, store) ==
    profileFrom(laboratoryId, date,
                hourlyFrom(profileAppointments(store, laboratoryId, date),
                           profilePreferredHours(laboratoryId, getDay(date))))

\* the whole call, on the mockAppointments array as it finds it
generateEnergyProfile(laboratoryId, date, snapshot) ==
    /\ pc = "idle"
    /\ pc' = "done"
    /\ service' = "profile"
    /\ options' = [NoOptions EXCEPT !.laboratoryId = laboratoryId, !.date = date]
    /\ conflictRows' = <<>>
    /\ loadRows' = <<>>
    /\ seenConflicts' = <<>>
    /\ seenLoad' = <<>>
    /\ seenMock' = snapshot
    /\ result' = energyProfile(laboratoryId, date, snapshot)
    /\ UNCHANGED appointments

----------------------------------------------------------------------------
(* The end of a call *)

\* the response goes to the caller and the call's record is dropped
respond ==
    /\ pc = "done"
    /\ pc' = "idle"
    /\ service' = "none"
    /\ options' = NoOptions
    /\ conflictRows' = <<>>
    /\ loadRows' = <<>>
    /\ seenConflicts' = <<>>
    /\ seenLoad' = <<>>
    /\ seenMock' = <<>>
    /\ result' = NoResult
    /\ UNCHANGED appointments

----------------------------------------------------------------------------
(* The specification *)

Init ==
    /\ appointments = <<>>
    /\ pc = "idle"
    /\ service = "none"
    /\ options = NoOptions
    /\ conflictRows = <<>>
    /\ loadRows = <<>>
    /\ seenConflicts = <<>>
    /\ seenLoad = <<>>
    /\ seenMock = <<>>
    /\ result = NoResult

Next ==
    \/ \E input \in AppointmentInputs : create(input)
    \/ \E call \in UpdateCalls : update(call.id, call.input)
    \/ \E opts \in AvailabilityOptionsSet : checkAvailabilityConflicts(opts)
    \/ checkAvailabilityLoad
    \/ \E opts \in AvailabilityOptionsSet \cup WednesdayOptionsSet :
            app_checkAvailability(opts)
    \/ \E request \in RequestSet : GET(request)
    \/ \E opts \in MockOptionsSet, snapshot \in MockSnapshots :
            lib_checkAvailability(opts, snapshot)
    \/ \E laboratoryId \in {1, 2}, date \in {1, 5, 6}, snapshot \in MockSnapshots :
            generateEnergyProfile(laboratoryId, date, snapshot)
    \/ respond

Spec == Init /\ [][Next]_vars

----------------------------------------------------------------------------
(* The time arithmetic applied to drawn arguments *)

\* the "HH:MM" strings the two intervals are drawn from
ClockTimes == {<<8, 0>>, <<9, 0>>, <<9, 30>>, <<10, 0>>, <<11, 0>>}

\* start1 < end1 and start2 < end2
OverlapArguments ==
    { [start1 |-> s1, end1 |-> e1, start2 |-> s2, end2 |-> e2] :
        s1 \in ClockTimes, e1 \in ClockTimes, s2 \in ClockTimes, e2 \in ClockTimes }

intervalsOf(arguments) ==
    { a \in arguments : /\ timeToMinutes(a.start1) < timeToMinutes(a.end1)
                        /\ timeToMinutes(a.start2) < timeToMinutes(a.end2) }

\* timeSlotsOverlap and overlapMinutes on the drawn arguments
overlapOf(a) ==
    [overlaps |-> timeSlotsOverlap(a.start1, a.end1, a.start2, a.end2),
     minutes |-> overlapMinutes(a.start1, a.end1, a.start2, a.end2)]

applyOverlap ==
    /\ pc = "idle"
    /\ service = "overlap"
    /\ pc' = "done"
    /\ result' = overlapOf(options)
    /\ UNCHANGED <<appointments, service, options, conflictRows, loadRows,
                   seenConflicts, seenLoad, seenMock>>

TimeInit ==
    /\ appointments = <<>>
    /\ pc = "idle"
    /\ service = "overlap"
    /\ options \in intervalsOf(OverlapArguments)
    /\ conflictRows = <<>>
    /\ loadRows = <<>>
    /\ seenConflicts = <<>>
    /\ seenLoad = <<>>
    /\ seenMock = <<>>
    /\ result = NoResult

TimeNext == applyOverlap

TimeSpec == TimeInit /\ [][TimeNext]_vars

----------------------------------------------------------------------------
(* PowerOptimizationService: optimizeScheduling and getWeeklyOptimization *)

EFFICIENCY_THRESHOLD == 3
PEAK_HOUR_MULTIPLIER == Rat(3, 2)

\* the numbers that are not finite: Infinity and -Infinity, as 1/0 and -1/0
Infinity == <<1, 0>>
NegInfinity == <<-1, 0>>

\* Math.max(...values) and Math.min(...values): -Infinity and Infinity for none
MathMax(values) ==
    IF Len(values) = 0 THEN NegInfinity
    ELSE values[CHOOSE i \in 1..Len(values) :
                    \A j \in 1..Len(values) : RLe(values[j], values[i])]

MathMin(values) ==
    IF Len(values) = 0 THEN Infinity
    ELSE values[CHOOSE i \in 1..Len(values) :
                    \A j \in 1..Len(values) : RLe(values[i], values[j])]

\* a - b and a + b where a is finite or -Infinity and b finite or Infinity
minus(a, b) ==
    IF a[2] = 0 \/ b[2] = 0 THEN NegInfinity ELSE RSub(a, b)

plus(a, b) ==
    IF a[2] = 0 THEN a ELSE IF b[2] = 0 THEN b ELSE RAdd(a, b)

\* items.sort(compare) for a comparator that orders by a number: the items
\* by ascending key, equal keys in their order (the sort is stable)
keyInsert(order, i, keys) ==
    insertAfter(order, i,
                lastIndex({ j \in 1..Len(order) : RLe(keys[order[j]], keys[i]) }))

orderByKey(keys) ==
    LET order[i \in 0..Len(keys)] ==
            IF i = 0 THEN <<>> ELSE keyInsert(order[i - 1], i, keys)
    IN  order[Len(keys)]

picked(items, order) == [k \in 1..Len(order) |-> items[order[k]]]

sortedByKey(items, keys) == picked(items, orderByKey(keys))

\* for (hour = 8; hour <= 18 - duration; hour++) slots.push({ "HH:00", .. })
generateAllPossibleSlots(date, duration) ==
    [i \in 1..Max2(0, 11 - duration) |->
        [start_time |-> <<7 + i, 0>>,
         end_time |-> <<7 + i + duration, 0>>,
         available |-> TRUE,
         power_consumption |-> RZero]]

\* the mean power of the laboratory's machines, 2.0 for a laboratory with none
getAverageMachineConsumption(laboratoryId) ==
    LET labMachines == SelectSeq(mockMachines,
                                 LAMBDA machine : machine.laboratory_id = laboratoryId)
    IN  IF Len(labMachines) = 0 THEN RInt(2)
        ELSE RDiv(Sum(powersOf(labMachines)), RInt(Len(labMachines)))

\* (baseConsumption + machineConsumption) * multiplier of one hour of a slot
hourOfSlotConsumption(hour, machineConsumption, profile) ==
    RMul(RAdd(profile.hourlyConsumption[hour + 1].consumption, machineConsumption),
         IF \E k \in 1..Len(profile.peakHours) : profile.peakHours[k] = hour
         THEN PEAK_HOUR_MULTIPLIER ELSE RInt(1))

\* slots.map(slot => ({ ...slot, power_consumption: totalConsumption }))
calculateSlotPowerConsumption(slots, laboratoryId, profile) ==
    [i \in 1..Len(slots) |->
        [slots[i] EXCEPT !.power_consumption =
            Sum([k \in 1..Max2(0, hourOf(slots[i].end_time) - hourOf(slots[i].start_time)) |->
                    hourOfSlotConsumption(hourOf(slots[i].start_time) + k - 1,
                                          getAverageMachineConsumption(laboratoryId),
                                          profile)])]]

\* hours.includes(startHour)
startsIn(slot, hours) ==
    \E k \in 1..Len(hours) : hours[k] = hourOf(slot.start_time)

\* (a variant of calculateSlotScore that leaves the power out)
calculateSlotScoreNoPower(slot, profile) ==
    RInt(100 + (IF startsIn(slot, profile.optimalHours) THEN 15 ELSE 0))

\* Math.max(0, 100 - powerPenalty + 15 (optimal) - 25 (peak) + 10 (8..10))
calculateSlotScore(slot, profile) ==
    LET score ==
            RAdd(RSub(RInt(100),
                      RMul(RDiv(slot.power_consumption, RInt(EFFICIENCY_THRESHOLD)),
                           RInt(20))),
                 RInt((IF startsIn(slot, profile.optimalHours) THEN 15 ELSE 0)
                      - (IF startsIn(slot, profile.peakHours) THEN 25 ELSE 0)
                      + (IF hourOf(slot.start_time) >= 8 /\ hourOf(slot.start_time) <= 10
                         THEN 10 ELSE 0)))
    IN  IF RLt(score, RZero) THEN RZero ELSE score

\* slots.filter(slot => slot.power_consumption <= limit)
withinBudget(slots, limit) ==
    SelectSeq(slots, LAMBDA slot : RLe(slot.power_consumption, limit))

\* (a variant of applyOptimizationStrategies without the budget filter)
applyOptimizationStrategiesUnfiltered(slots, maxPowerBudget, prioritizeEfficiency, profile) ==
    sliceFirst(sortedByKey(slots, powersOf(slots)), 3)

\* the budget filter, the sort by power or by score, the first three
applyOptimizationStrategies(slots, maxPowerBudget, prioritizeEfficiency, profile) ==
    LET optimizedSlots == withinBudget(slots, maxPowerBudget)
    IN  sliceFirst(
            IF prioritizeEfficiency
            THEN sortedByKey(optimizedSlots, powersOf(optimizedSlots))
            ELSE sortedByKey(optimizedSlots,
                             [i \in 1..Len(optimizedSlots) |->
                                 RSub(RZero, calculateSlotScore(optimizedSlots[i], profile))]),
            3)

\* Math.min(100, efficiency + optimalHourBonus), 0 for no slot
calculateEfficiencyScore(slots, profile) ==
    IF Len(slots) = 0 THEN RZero
    ELSE LET avgConsumption == RDiv(Sum(powersOf(slots)), RInt(Len(slots)))
             ratio == RMul(RDiv(avgConsumption, RInt(EFFICIENCY_THRESHOLD * 2)), RInt(100))
             efficiency == IF RLt(RInt(100), ratio) THEN RZero ELSE RSub(RInt(100), ratio)
             total == RAdd(efficiency,
                           RInt(10 * Len(SelectSeq(slots,
                                    LAMBDA slot : startsIn(slot, profile.optimalHours)))))
         IN  IF RLt(RInt(100), total) THEN RInt(100) ELSE total

\* the strategies named: the mean of no slot is NaN, which is below nothing
getOptimizationStrategies(slots, profile) ==
    (IF Len(slots) > 0 /\ RLt(RDiv(Sum(powersOf(slots)), RInt(Max2(1, Len(slots)))),
                              RInt(EFFICIENCY_THRESHOLD))
     THEN <<"bajo consumo">> ELSE <<>>)
    \o (IF \E i \in 1..Len(slots) : startsIn(slots[i], profile.optimalHours)
        THEN <<"consumo optimo">> ELSE <<>>)
    \o (IF ~\E i \in 1..Len(slots) : startsIn(slots[i], profile.peakHours)
        THEN <<"evita pico">> ELSE <<>>)
    \o (IF RLt(profile.capacityUtilization, RInt(70))
        THEN <<"capacidad disponible">> ELSE <<>>)

\* alternatives.push({ schedule, totalPower, description }) for a schedule
\* with a slot
pushSchedule(alternatives, schedule, description) ==
    IF Len(schedule) > 0
    THEN Append(alternatives,
                [schedule |-> schedule,
                 totalPower |-> Sum(powersOf(schedule)),
                 description |-> description])
    ELSE alternatives

\* filter (power <= budget), sort by power, slice(0, 2)
efficientSlotsOf(slots, maxPowerBudget) ==
    sliceFirst(sortedByKey(withinBudget(slots, maxPowerBudget),
                           powersOf(withinBudget(slots, maxPowerBudget))), 2)

\* filter (hour >= 8 && hour <= 12 && power <= budget), sort by power, slice(0, 2)
morningSlotsOf(slots, maxPowerBudget) ==
    efficientSlotsOf(SelectSeq(slots,
                               LAMBDA slot : /\ hourOf(slot.start_time) >= 8
                                             /\ hourOf(slot.start_time) <= 12),
                     maxPowerBudget)

\* filter (power <= budget * 1.2), sort by start hour, slice(0, 3)
flexibleSlotsOf(slots, maxPowerBudget) ==
    LET allowed == withinBudget(slots, RMul(maxPowerBudget, Rat(6, 5)))
    IN  sliceFirst(sortedByKey(allowed,
                               [i \in 1..Len(allowed) |->
                                   RInt(hourOf(allowed[i].start_time))]), 3)

generateAlternativeSchedules(slots, maxPowerBudget) ==
    pushSchedule(
        pushSchedule(
            pushSchedule(<<>>, efficientSlotsOf(slots, maxPowerBudget),
                         "Maxima eficiencia energetica"),
            morningSlotsOf(slots, maxPowerBudget),
            "Horarios matutinos balanceados"),
        flexibleSlotsOf(slots, maxPowerBudget),
        "Horarios flexibles con mayor disponibilidad")

\* the OptimizationResult of the slots with their power and the three chosen
optimizationOf(slotsWithPower, optimizedSlots, maxPowerBudget, profile) ==
    [recommendedSlots |-> optimizedSlots,
     powerSavings |-> minus(MathMax(powersOf(slotsWithPower)),
                            MathMin(powersOf(optimizedSlots))),
     efficiencyScore |-> calculateEfficiencyScore(optimizedSlots, profile),
     optimizationStrategies |-> getOptimizationStrategies(optimizedSlots, profile),
     alternativeSchedules |-> generateAlternativeSchedules(slotsWithPower, maxPowerBudget)]

\* maxPowerBudget = 10 and prioritizeEfficiency = true when the options name none
budgetOf(opts) ==
    IF opts.maxPowerBudget = <<>> THEN RInt(10) ELSE opts.maxPowerBudget[1]

prioritizes(opts) ==
    IF opts.prioritizeEfficiency = <<>> THEN TRUE ELSE opts.prioritizeEfficiency[1]

slotsWithPowerOf(opts, profile) ==
    calculateSlotPowerConsumption(
        generateAllPossibleSlots(opts.date, opts.requestedDuration),
        opts.laboratoryId, profile)

optimizationFrom(opts, profile, slotsWithPower) ==
    optimizationOf(slotsWithPower,
                   applyOptimizationStrategies(slotsWithPower, budgetOf(opts),
                                               prioritizes(opts), profile),
                   budgetOf(opts), profile)

optimization(opts, profile) ==
    optimizationFrom(opts, profile, slotsWithPowerOf(opts, profile))

\* what optimizeScheduling(options) resolves to on the mockAppointments it finds
optimizationResult(opts, store) ==
    optimization(opts, energyProfile(opts.laboratoryId, opts.date, store))

\* the seven dates from startDate that are not a Saturday or a Sunday, each
\* with its optimization: { laboratoryId, date, requestedDuration: duration,
\* prioritizeEfficiency: true }
dailyRecommendationsOf(laboratoryId, startDate, duration, store) ==
    LET days == SelectSeq([i \in 1..7 |-> startDate + i - 1],
                          LAMBDA date : getDay(date) # 0 /\ getDay(date) # 6)
    IN  [k \in 1..Len(days) |->
            [date |-> days[k],
             optimization |->
                optimizationResult([laboratoryId |-> laboratoryId,
                                    date |-> days[k],
                                    requestedDuration |-> duration,
                                    maxPowerBudget |-> <<>>,
                                    prioritizeEfficiency |-> <<TRUE>>],
                                   store)]]

\* dailyRecommendations.sort((a, b) => b.efficiencyScore - a.efficiencyScore):
\* the array itself, sorted in place
sortByEfficiencyScore(dailyRecommendations) ==
    sortedByKey(dailyRecommendations,
                [k \in 1..Len(dailyRecommendations) |->
                    RSub(RZero, dailyRecommendations[k].optimization.efficiencyScore)])

\* (a variant of sortByEfficiencyScore that sorts nothing)
sortByEfficiencyScoreNot(dailyRecommendations) == dailyRecommendations

\* the totals of the loop
totalOf(dailyRecommendations, field) ==
    LET acc[k \in 0..Len(dailyRecommendations)] ==
            IF k = 0 THEN RZero
            ELSE plus(acc[k - 1], dailyRecommendations[k].optimization[field])
    IN  acc[Len(dailyRecommendations)]

\* the return value: dailyRecommendations is the array that sort has reordered
weeklyOf(dailyRecommendations, sorted) ==
    [dailyRecommendations |-> sorted,
     weeklyInsights |->
        [totalPowerSavings |-> totalOf(dailyRecommendations, "powerSavings"),
         bestDays |-> [k \in 1..Min2(3, Len(sorted)) |-> sorted[k].date],
         averageEfficiency |->
            IF Len(dailyRecommendations) > 0
            THEN RDiv(totalOf(dailyRecommendations, "efficiencyScore"),
                      RInt(Len(dailyRecommendations)))
            ELSE RZero]]

weeklyFrom(dailyRecommendations) ==
    weeklyOf(dailyRecommendations, sortByEfficiencyScore(dailyRecommendations))

weeklyResult(opts, store) ==
    weeklyFrom(dailyRecommendationsOf(opts.laboratoryId, opts.date,
                                      opts.requestedDuration, store))

\* an appointment that fills a working day (a Wednesday) of laboratory 2
dayLong ==
    [laboratory_id |-> 2, machine_id |-> 3, appointment_date |-> 3,
     start_time |-> <<8, 0>>, end_time |-> <<18, 0>>, status |-> "confirmed",
     power_consumption |-> <<16, 5>>]

\* the contents of the mockAppointments array the optimizer may find
OptimizationSnapshots == { <<app1, app2>>, <<app1, app2, dayLong>> }

\* the PowerOptimizationOptions of a caller: the duration in whole hours
\* (the route passes Number.parseInt(duration)), the budget in kW
OptimizationOptionsSet ==
    { [call |-> "optimizeScheduling", laboratoryId |-> l, date |-> d,
       requestedDuration |-> h, maxPowerBudget |-> <<RInt(b)>>,
       prioritizeEfficiency |-> <<e>>] :
        l \in {1, 2}, d \in {3, 5}, h \in {0, 1, 2, 11}, b \in {5, 10, 15},
        e \in BOOLEAN }

\* the arguments of getWeeklyOptimization: date is startDate
WeeklyOptionsSet ==
    { [call |-> "getWeeklyOptimization", laboratoryId |-> l, date |-> d,
       requestedDuration |-> h, maxPowerBudget |-> <<>>,
       prioritizeEfficiency |-> <<TRUE>>] :
        l \in {1, 2}, d \in {1, 3, 6}, h \in {1, 2} }

optimizeScheduling ==
    /\ pc = "idle"
    /\ options.call = "optimizeScheduling"
    /\ pc' = "done"
    /\ result' = optimizationResult(options, seenMock)
    /\ UNCHANGED <<appointments, service, options, conflictRows, loadRows,
                   seenConflicts, seenLoad, seenMock>>

getWeeklyOptimization ==
    /\ pc = "idle"
    /\ options.call = "getWeeklyOptimization"
    /\ pc' = "done"
    /\ result' = weeklyResult(options, seenMock)
    /\ UNCHANGED <<appointments, service, options, conflictRows, loadRows,
                   seenConflicts, seenLoad, seenMock>>

OptimizationInit ==
    /\ appointments = <<>>
    /\ pc = "idle"
    /\ service = "optimization"
    /\ options \in OptimizationOptionsSet \cup WeeklyOptionsSet
    /\ conflictRows = <<>>
    /\ loadRows = <<>>
    /\ seenConflicts = <<>>
    /\ seenLoad = <<>>
    /\ seenMock \in OptimizationSnapshots
    /\ result = NoResult

OptimizationNext == optimizeScheduling \/ getWeeklyOptimization

OptimizationSpec == OptimizationInit /\ [][OptimizationNext]_vars

----------------------------------------------------------------------------
(* What the claims are stated with: the stored rows and the returned slots *)

\* a clock time as its minute of the day, and back
minuteOfDay(time) == 60 * time[1] + time[2]
clockTime(minutes) == <<minutes \div 60, minutes % 60>>

\* the length of the intersection of [s1, e1) and [s2, e2)
commonMinutes(s1, e1, s2, e2) ==
    IF s1 < e2 /\ s2 < e1 THEN Min2(e1, e2) - Max2(s1, s2) ELSE 0

\* the machines a request names
requestedMachines(opts) ==
    IF opts.machineIds # {} THEN opts.machineIds
    ELSE IF opts.machineId # 0 THEN {opts.machineId}
    ELSE {}

\* the duration a request asks for, two hours when it names none
requestedDuration(opts) ==
    IF opts.duration = <<>> THEN 120 ELSE opts.duration[1]

\* a call of the overlap-weighted service has returned its slots
weightedAnswer ==
    pc = "done" /\ service = "weighted" /\ requestedMachines(options) # {}

laboratoryOf(machineId) ==
    MachineTable[CHOOSE k \in 1..Len(MachineTable) :
                     MachineTable[k].id = machineId].laboratory_id

\* every machine linked to an appointment belongs to the appointment's laboratory
sameLaboratory(table) ==
    \A i \in 1..Len(table) :
        \A m \in table[i].machines : laboratoryOf(m) = table[i].laboratory_id

startBeforeEnd(table) ==
    \A i \in 1..Len(table) : table[i].start_time < table[i].end_time

withoutCancelled(table) == SelectSeq(table, LAMBDA a : a.status # "cancelled")

storedPower(a) ==
    IF a.power_consumption = <<>> THEN RZero ELSE Rat(a.power_consumption[1], 100)

\* the stored appointment blocks the slot for the request
blocks(a, opts, slot) ==
    /\ a.appointment_date = opts.date
    /\ a.status # "cancelled"
    /\ a.machines \cap requestedMachines(opts) # {}
    /\ minuteOfDay(slot.start_time) < a.end_time
    /\ minuteOfDay(slot.end_time) > a.start_time

\* the preferred-hour term the code added into a slot's power, and the
\* concurrent-appointment term
codePreferredTerm(slot) ==
    RSub(slot.power_consumption,
         concurrentWeighted(slot.start_time, slot.end_time, toLight(loadRows)))

codeConcurrentTerm(slot) ==
    RSub(slot.power_consumption,
         preferredWeighted(slot.start_time, slot.end_time,
                           minuteOfDay(slot.end_time) - minuteOfDay(slot.start_time),
                           preferredHoursOf(getDay(options.date))))

\* (common minutes / slot minutes) * power of each stored window, added up
expectedPreferredOver(windows, slotStart, slotEnd) ==
    Sum([i \in 1..Len(windows) |->
            RMul(Rat(commonMinutes(slotStart, slotEnd,
                                   windows[i].start_time, windows[i].end_time),
                     slotEnd - slotStart),
                 Rat(windows[i].power_consumption, 100))])

\* the sum over the stored windows of the weekday that meet [slotStart, slotEnd)
expectedPreferredTerm(slotStart, slotEnd, date) ==
    expectedPreferredOver(
        SelectSeq(PreferredHourTable,
                  LAMBDA w : /\ w.day_of_week = date % 7
                             /\ commonMinutes(slotStart, slotEnd,
                                              w.start_time, w.end_time) > 0),
        slotStart, slotEnd)

\* (common minutes / appointment minutes) * power of each stored appointment,
\* added up
expectedConcurrentOver(rows, slotStart, slotEnd) ==
    Sum([i \in 1..Len(rows) |->
            RMul(Rat(commonMinutes(slotStart, slotEnd,
                                   rows[i].start_time, rows[i].end_time),
                     rows[i].end_time - rows[i].start_time),
                 storedPower(rows[i]))])

\* the sum over the stored appointments of the date that meet [slotStart, slotEnd)
expectedConcurrentTerm(slotStart, slotEnd, table, date) ==
    expectedConcurrentOver(
        SelectSeq(table,
                  LAMBDA a : /\ a.appointment_date = date
                             /\ a.status # "cancelled"
                             /\ commonMinutes(slotStart, slotEnd,
                                              a.start_time, a.end_time) > 0),
        slotStart, slotEnd)

\* the starts 08:00 + k * 30 min whose slot of the duration ends by 18:00
expectedStarts(duration) ==
    {start \in {480 + 30 * k : k \in 0..20} : start + duration <= 1080}

\* tenths is the power to one decimal
toOneDecimal(tenths, power) ==
    /\ RLe(RSub(Rat(tenths, 10), power), Rat(1, 20))
    /\ RLe(RSub(power, Rat(tenths, 10)), Rat(1, 20))

\* the slots as the loop pushed them, before the sort
generatedSlots ==
    slotLoop(WORKING_HOURS_START * 60, targetMachineIds(options),
             durationOf(options), toLight(conflictRows),
             preferredHoursOf(getDay(options.date)), machinesOf(options),
             toLight(loadRows))

unranked(slot) == [slot EXCEPT !.power_spike_percentage = RZero]

isPermutation(returned, generated) ==
    /\ Len(returned) = Len(generated)
    /\ \A i \in 1..Len(generated) :
           \E k \in 1..Len(returned) : unranked(returned[k]) = generated[i]
    /\ \A k \in 1..Len(returned) :
           \E i \in 1..Len(generated) : unranked(returned[k]) = generated[i]
    /\ \A k, l \in 1..Len(returned) :
           k # l => returned[k].start_time # returned[l].start_time

\* power ascending, equal powers by start time ascending
inRankOrder(a, b) ==
    \/ RLt(a.power_consumption, b.power_consumption)
    \/ /\ a.power_consumption = b.power_consumption
       /\ minuteOfDay(a.start_time) < minuteOfDay(b.start_time)

lowestOf(timeSlots) ==
    CHOOSE p \in {timeSlots[k].power_consumption : k \in 1..Len(timeSlots)} :
        \A k \in 1..Len(timeSlots) : RLe(p, timeSlots[k].power_consumption)

expectedSpike(power, lowest) ==
    IF RLt(RZero, lowest)
    THEN RMul(RDiv(RSub(power, lowest), lowest), RInt(100))
    ELSE power

spikesAsClaimed(timeSlots, lowest) ==
    \A k \in 1..Len(timeSlots) :
        timeSlots[k].power_spike_percentage =
            expectedSpike(timeSlots[k].power_consumption, lowest)

----------------------------------------------------------------------------
(* The claims *)

\* C1: for a request with a non-empty machine set, over appointments that
\* start before they end and are linked to machines of their own laboratory
\* only, a returned slot has available = false exactly when its interval
\* overlaps a non-cancelled appointment of the date that is linked to one of
\* the requested machines.  The conflict query also requires the appointment
\* to be of the requested laboratory, and timeFromDate moves a start before
\* 03:00 past midnight, so overlapping slots come back available.
C1_UnavailableIffBlocked ==
    (weightedAnswer /\ sameLaboratory(seenConflicts) /\ startBeforeEnd(seenConflicts))
    => \A k \in 1..Len(result.timeSlots) :
           (~result.timeSlots[k].available)
           <=> \E i \in 1..Len(seenConflicts) :
                   blocks(seenConflicts[i], options, result.timeSlots[k])

\* C2: cancelled appointments never influence a result: checkAvailability of
\* the overlap-weighted service, of the service of app/services and of the lib
\* service, and generateEnergyProfile, return what they return on the rows
\* they read with the cancelled ones removed.
C2_CancelledNeverCounts ==
    /\ (pc = "done" /\ service = "app" /\ requestedMachines(options) # {})
       => result = app_availabilityResult(
                       options,
                       findConflicting(withoutCancelled(seenConflicts), options))
    /\ weightedAnswer
       => result = availabilityResult(
                       options,
                       findConflicting(withoutCancelled(seenConflicts), options),
                       findAllForLoad(withoutCancelled(seenLoad), options))
    /\ (pc = "done" /\ service = "lib")
       => result = lib_availabilityResult(options, withoutCancelled(seenMock))
    /\ (pc = "done" /\ service = "profile")
       => result = energyProfile(options.laboratoryId, options.date,
                                 withoutCancelled(seenMock))

\* C2, its case: an overlap-weighted call has read a cancelled appointment of
\* the requested date, laboratory and machines that carries power and meets a
\* returned slot, and the slot is available.
C2_Witness ==
    /\ weightedAnswer
    /\ \E i \in (DOMAIN seenConflicts) \cap (DOMAIN seenLoad) :
        /\ seenConflicts[i].status = "cancelled"
        /\ seenLoad[i] = seenConflicts[i]
        /\ seenLoad[i].appointment_date = options.date
        /\ seenLoad[i].laboratory_id = options.laboratoryId
        /\ seenLoad[i].machines \cap requestedMachines(options) # {}
        /\ RLt(RZero, storedPower(seenLoad[i]))
        /\ \E k \in 1..Len(result.timeSlots) :
            /\ result.timeSlots[k].available
            /\ commonMinutes(minuteOfDay(result.timeSlots[k].start_time),
                             minuteOfDay(result.timeSlots[k].end_time),
                             seenLoad[i].start_time, seenLoad[i].end_time) > 0

\* C3: every slot's power_consumption is the machine base load plus the
\* preferred-hour term plus the concurrent-appointment term.  The code
\* computes the base load and leaves it out of the sum.
C3_PowerIsSumOfThreeTerms ==
    weightedAnswer
    => \A k \in 1..Len(result.timeSlots) :
           result.timeSlots[k].power_consumption =
               RAdd(totalMachinePower(machinesOf(options)),
                    RAdd(preferredWeighted(
                             result.timeSlots[k].start_time,
                             result.timeSlots[k].end_time,
                             minuteOfDay(result.timeSlots[k].end_time)
                                 - minuteOfDay(result.timeSlots[k].start_time),
                             preferredHoursOf(getDay(options.date))),
                         concurrentWeighted(result.timeSlots[k].start_time,
                                            result.timeSlots[k].end_time,
                                            toLight(loadRows))))

C5_ConcurrentTerm ==
    (weightedAnswer /\ startBeforeEnd(seenLoad))
    => \A k \in 1..Len(result.timeSlots) :
           codeConcurrentTerm(result.timeSlots[k]) =
               expectedConcurrentTerm(minuteOfDay(result.timeSlots[k].start_time),
                                      minuteOfDay(result.timeSlots[k].end_time),
                                      seenLoad, options.date)

\* C6: for a positive duration d in minutes the slots are exactly those that
\* start at 08:00 + k * 30 min while start + d <= 18:00, each ending at
\* start + d, none repeated.
C6_SlotsEnumerated ==
    weightedAnswer
    => /\ {<<result.timeSlots[k].start_time, result.timeSlots[k].end_time>> :
              k \in 1..Len(result.timeSlots)}
          = {<<clockTime(start), clockTime(start + requestedDuration(options))>> :
                start \in expectedStarts(requestedDuration(options))}
       /\ Len(result.timeSlots)
          = Cardinality(expectedStarts(requestedDuration(options)))

\* C6, its case: a duration that is no multiple of the increment, 7 h 45,
\* has returned its five slots, the last one 10:00-17:45.
C6_Witness ==
    /\ weightedAnswer
    /\ requestedDuration(options) = 465
    /\ Len(result.timeSlots) = 5
    /\ \E k \in 1..Len(result.timeSlots) :
        /\ result.timeSlots[k].start_time = <<10, 0>>
        /\ result.timeSlots[k].end_time = <<17, 45>>

\* C7: a duration of more than the 10 working hours returns normally with no
\* slot, no efficiency group and no bestSlot.
C7_TooLongYieldsNothing ==
    (weightedAnswer /\ options.duration # <<>> /\ options.duration[1] > 600)
    => /\ result.timeSlots = <<>>
       /\ result.efficiencyGroups = <<>>
       /\ "recommendations" \notin DOMAIN result

\* C7, its case: a call for 10 h 30 has returned, with appointments stored.
C7_Witness ==
    /\ weightedAnswer
    /\ options.duration = <<630>>
    /\ seenLoad # <<>>
    /\ result.timeSlots = <<>>

\* C8: a slot blocked by a conflict carries "Horario ya reservado"; an
\* available slot above 4.0 kW carries the high-consumption message with its
\* power to one decimal; any other slot carries no reason.
C8_Reason ==
    weightedAnswer
    => \A k \in 1..Len(result.timeSlots) :
           IF ~result.timeSlots[k].available
           THEN result.timeSlots[k].reason = [text |-> "Horario ya reservado", kw |-> 0]
           ELSE IF RLt(RInt(4), result.timeSlots[k].power_consumption)
           THEN /\ result.timeSlots[k].reason.text = "Alto consumo energetico"
                /\ toOneDecimal(result.timeSlots[k].reason.kw,
                                result.timeSlots[k].power_consumption)
           ELSE result.timeSlots[k].reason = [text |-> "", kw |-> 0]

\* C8, its case: one response holds a blocked slot above 4.0 kW, an available
\* slot above 4.0 kW and an available slot at or below it.
C8_Witness ==
    /\ weightedAnswer
    /\ \E k, l, m \in 1..Len(result.timeSlots) :
        /\ ~result.timeSlots[k].available
        /\ RLt(RInt(4), result.timeSlots[k].power_consumption)
        /\ result.timeSlots[l].available
        /\ RLt(RInt(4), result.timeSlots[l].power_consumption)
        /\ result.timeSlots[m].available
        /\ RLe(result.timeSlots[m].power_consumption, RInt(4))

\* C9: the returned timeSlots are in power_consumption order, equal powers in
\* start_time order, and are a permutation of the generated slots.
C9_SortedPermutation ==
    weightedAnswer
    => /\ \A k \in 1..(Len(result.timeSlots) - 1) :
              inRankOrder(result.timeSlots[k], result.timeSlots[k + 1])
       /\ isPermutation(result.timeSlots, generatedSlots)

\* C9, its case: the sort has moved a later slot ahead of an earlier one, and
\* two slots of equal power stand in start order.
C9_Witness ==
    /\ weightedAnswer
    /\ \E k \in 1..(Len(result.timeSlots) - 1) :
        /\ RLt(result.timeSlots[k].power_consumption,
               result.timeSlots[k + 1].power_consumption)
        /\ minuteOfDay(result.timeSlots[k].start_time)
               > minuteOfDay(result.timeSlots[k + 1].start_time)
    /\ \E k \in 1..(Len(result.timeSlots) - 1) :
        result.timeSlots[k].power_consumption
            = result.timeSlots[k + 1].power_consumption

\* C10: with lowest the least power_consumption of the query's slots, every
\* slot's power_spike_percentage is (power - lowest) / lowest * 100 when
\* lowest > 0 and its own power_consumption when lowest = 0, in the
\* overlap-weighted service and in the service of app/services.  The latter
\* returns 0 for every slot when lowest = 0.
C10_SpikePercentage ==
    (pc = "done" /\ service \in {"weighted", "app"} /\ result.timeSlots # <<>>)
    => spikesAsClaimed(result.timeSlots, lowestOf(result.timeSlots))

\* the slots of a finished call of one of the two services that read the store
storeAnswer ==
    pc = "done" /\ service \in {"weighted", "app"} /\ result.timeSlots # <<>>

nonNegativePowers(timeSlots) ==
    \A k \in 1..Len(timeSlots) : RLe(RZero, timeSlots[k].power_consumption)

\* C11: in a non-empty returned slot set with non-negative powers every
\* power_spike_percentage is >= 0, the slots of minimum power have exactly 0
\* when that minimum is > 0, and a slot of no more power than another has no
\* more spike than it (so the values never decrease along the power order).
C11_SpikeAnchoredAndMonotonic ==
    (storeAnswer /\ nonNegativePowers(result.timeSlots))
    => /\ \A k \in 1..Len(result.timeSlots) :
              RLe(RZero, result.timeSlots[k].power_spike_percentage)
       /\ RLt(RZero, lowestOf(result.timeSlots))
          => \A k \in 1..Len(result.timeSlots) :
                 result.timeSlots[k].power_consumption = lowestOf(result.timeSlots)
                 => result.timeSlots[k].power_spike_percentage = RZero
       /\ \A k, l \in 1..Len(result.timeSlots) :
              RLe(result.timeSlots[k].power_consumption,
                  result.timeSlots[l].power_consumption)
              => RLe(result.timeSlots[k].power_spike_percentage,
                     result.timeSlots[l].power_spike_percentage)

\* C11, its case: an overlap-weighted response whose lowest power is above 0,
\* shared by two slots, with a third slot above it.
C11_Witness ==
    /\ weightedAnswer
    /\ result.timeSlots # <<>>
    /\ RLt(RZero, lowestOf(result.timeSlots))
    /\ \E k, l, m \in 1..Len(result.timeSlots) :
        /\ k # l
        /\ result.timeSlots[k].power_consumption = lowestOf(result.timeSlots)
        /\ result.timeSlots[l].power_consumption = lowestOf(result.timeSlots)
        /\ RLt(RZero, result.timeSlots[m].power_spike_percentage)

\* the five bands of the spike percentage, by the id of their group
bandContains(id, pct) ==
    CASE id = "optimal" -> RLe(RInt(0), pct) /\ RLt(pct, RInt(10))
      [] id = "good" -> RLe(RInt(10), pct) /\ RLt(pct, RInt(30))
      [] id = "regular" -> RLe(RInt(30), pct) /\ RLt(pct, RInt(50))
      [] id = "high" -> RLe(RInt(50), pct) /\ RLt(pct, RInt(500))
      [] id = "very-high" -> RLe(RInt(500), pct)
      [] OTHER -> FALSE

bandRank(id) ==
    CASE id = "optimal" -> 1
      [] id = "good" -> 2
      [] id = "regular" -> 3
      [] id = "high" -> 4
      [] id = "very-high" -> 5
      [] OTHER -> 0

\* C12: every slot of every emitted group has its power_spike_percentage
\* field inside the group's band: [0,10) optimal, [10,30) good, [30,50)
\* regular, [50,500) high, [500,infinity) very-high.  The grouping computes
\* its own percentage, which is 0 for every slot when the lowest power is 0,
\* while the field is then the slot's power.
C12_GroupedByItsSpikeField ==
    weightedAnswer
    => \A g \in 1..Len(result.efficiencyGroups) :
           \A k \in 1..Len(result.efficiencyGroups[g].slots) :
               bandContains(result.efficiencyGroups[g].id,
                            result.efficiencyGroups[g].slots[k].power_spike_percentage)

\* the number of places a slot takes in the groups
placesOf(slot, groups) ==
    Cardinality({<<g, k>> \in (1..Len(groups)) \X (1..21) :
                    /\ k <= Len(groups[g].slots)
                    /\ groups[g].slots[k] = slot})

\* C13: for a non-empty slot set every slot is in exactly one emitted group
\* and the groups hold nothing else, no emitted group is empty, and the
\* groups come in band order: optimal, good, regular, high, very-high.
C13_DisjointTotalGrouping ==
    (weightedAnswer /\ result.timeSlots # <<>>)
    => /\ \A k \in 1..Len(result.timeSlots) :
              placesOf(result.timeSlots[k], result.efficiencyGroups) = 1
       /\ \A g \in 1..Len(result.efficiencyGroups) :
              /\ result.efficiencyGroups[g].slots # <<>>
              /\ \A k \in 1..Len(result.efficiencyGroups[g].slots) :
                     \E l \in 1..Len(result.timeSlots) :
                         result.timeSlots[l] = result.efficiencyGroups[g].slots[k]
       /\ \A g \in 1..(Len(result.efficiencyGroups) - 1) :
              bandRank(result.efficiencyGroups[g].id)
                  < bandRank(result.efficiencyGroups[g + 1].id)
       /\ \A g \in 1..Len(result.efficiencyGroups) :
              bandRank(result.efficiencyGroups[g].id) > 0

\* C13, its case: a response whose slots fall in three groups or more, one
\* band between them left out, and one group of several slots.
C13_Witness ==
    /\ weightedAnswer
    /\ Len(result.efficiencyGroups) >= 3
    /\ \E g \in 1..(Len(result.efficiencyGroups) - 1) :
           bandRank(result.efficiencyGroups[g + 1].id)
               > bandRank(result.efficiencyGroups[g].id) + 1
    /\ \E g \in 1..Len(result.efficiencyGroups) :
           Len(result.efficiencyGroups[g].slots) >= 2

\* a finished call of a service that returns recommendations, made with
\* machines or, in the lib service, without
recommendationsAnswer ==
    /\ pc = "done"
    /\ \/ service = "app" /\ requestedMachines(options) # {}
       \/ service = "lib"

\* the slot is one of the sequence
isAmong(slot, slots) == \E k \in 1..Len(slots) : slots[k] = slot

\* available with a power of 3.0 kW at most
isEfficient(slot) == slot.available /\ RLe(slot.power_consumption, RInt(3))

\* C14: energyEfficientSlots holds only returned slots that are available
\* with power_consumption <= 3.0, at most 3 of them, none twice, in power
\* order, and no such slot left out has less power than one that is in.
C14_EnergyEfficientSlots ==
    recommendationsAnswer
    => /\ Len(result.recommendations.energyEfficientSlots) <= 3
       /\ \A i \in 1..Len(result.recommendations.energyEfficientSlots) :
              /\ isAmong(result.recommendations.energyEfficientSlots[i],
                         result.timeSlots)
              /\ isEfficient(result.recommendations.energyEfficientSlots[i])
       /\ \A i, j \in 1..Len(result.recommendations.energyEfficientSlots) :
              i < j
              => /\ result.recommendations.energyEfficientSlots[i]
                        # result.recommendations.energyEfficientSlots[j]
                 /\ RLe(result.recommendations.energyEfficientSlots[i].power_consumption,
                        result.recommendations.energyEfficientSlots[j].power_consumption)
       /\ \A k \in 1..Len(result.timeSlots) :
              (/\ isEfficient(result.timeSlots[k])
               /\ ~isAmong(result.timeSlots[k],
                           result.recommendations.energyEfficientSlots))
              => \A i \in 1..Len(result.recommendations.energyEfficientSlots) :
                     ~RLt(result.timeSlots[k].power_consumption,
                          result.recommendations.energyEfficientSlots[i].power_consumption)

\* C14, its case: three slots are recommended of two different powers, and
\* an available slot of 3.0 kW at most is left out.
C14_Witness ==
    /\ recommendationsAnswer
    /\ Len(result.recommendations.energyEfficientSlots) = 3
    /\ result.recommendations.energyEfficientSlots[1].power_consumption
           # result.recommendations.energyEfficientSlots[3].power_consumption
    /\ \E k \in 1..Len(result.timeSlots) :
           /\ isEfficient(result.timeSlots[k])
           /\ ~isAmong(result.timeSlots[k],
                       result.recommendations.energyEfficientSlots)

\* the power of a is lower than that of b by more than 0.5 kW
lowerByMoreThanHalf(a, b) ==
    RLt(Rat(1, 2), RSub(b.power_consumption, a.power_consumption))

\* a comes before b under the key: lower by more than 0.5 kW, or within
\* 0.5 kW and starting earlier
beats(a, b) ==
    \/ lowerByMoreThanHalf(a, b)
    \/ /\ ~lowerByMoreThanHalf(b, a)
       /\ minuteOfDay(a.start_time) < minuteOfDay(b.start_time)

\* no available slot of the response beats the slot
unbeaten(slot, timeSlots) ==
    \A k \in 1..Len(timeSlots) :
        timeSlots[k].available => ~beats(timeSlots[k], slot)

someAvailable(timeSlots) == \E k \in 1..Len(timeSlots) : timeSlots[k].available

\* bestSlot is absent exactly when no slot is available, and else is an
\* available slot of the response
bestSlotIsAvailable ==
    /\ result.recommendations.bestSlot = <<>> <=> ~someAvailable(result.timeSlots)
    /\ result.recommendations.bestSlot # <<>>
       => /\ isAmong(result.recommendations.bestSlot[1], result.timeSlots)
          /\ result.recommendations.bestSlot[1].available

\* C15 as stated: bestSlot is absent exactly when no slot is available, and
\* else is an available slot that no available slot beats: none has a power
\* lower by more than 0.5 kW, and none within 0.5 kW starts earlier.
C15_BestSlotUnbeaten ==
    recommendationsAnswer
    => /\ bestSlotIsAvailable
       /\ result.recommendations.bestSlot # <<>>
          => unbeaten(result.recommendations.bestSlot[1], result.timeSlots)

\* C15, amended: bestSlot is absent exactly when no slot is available, else
\* it is an available slot of the response, and it is the slot no available
\* slot beats whenever there is one.
C15_BestSlotUnbeatenIfAny ==
    recommendationsAnswer
    => /\ bestSlotIsAvailable
       /\ \A k \in 1..Len(result.timeSlots) :
              (result.timeSlots[k].available
               /\ unbeaten(result.timeSlots[k], result.timeSlots))
              => result.recommendations.bestSlot = <<result.timeSlots[k]>>

\* C15, its case: the best slot is not the earliest available one and not
\* the first of the response; a slot of more than 0.5 kW more starts earlier.
C15_Witness ==
    /\ recommendationsAnswer
    /\ result.recommendations.bestSlot # <<>>
    /\ unbeaten(result.recommendations.bestSlot[1], result.timeSlots)
    /\ \E k \in 1..Len(result.timeSlots) :
           /\ result.timeSlots[k].available
           /\ lowerByMoreThanHalf(result.recommendations.bestSlot[1],
                                  result.timeSlots[k])
           /\ minuteOfDay(result.timeSlots[k].start_time)
                  < minuteOfDay(result.recommendations.bestSlot[1].start_time)
    /\ \E k \in 1..Len(result.timeSlots) :
           /\ result.timeSlots[k].available
           /\ result.timeSlots[k] # result.recommendations.bestSlot[1]
           /\ ~lowerByMoreThanHalf(result.recommendations.bestSlot[1],
                                   result.timeSlots[k])

\* the number of available slots of the response
availableCount(timeSlots) ==
    Cardinality({k \in 1..Len(timeSlots) : timeSlots[k].available})

isWeekday(date) == date % 7 \notin {0, 6}

\* the three dates are the first three weekdays after the date, in order
nextThreeWeekdays(dates, date) ==
    /\ Len(dates) = 3
    /\ date < dates[1] /\ dates[1] < dates[2] /\ dates[2] < dates[3]
    /\ \A d \in (date + 1)..dates[3] :
           isWeekday(d) <=> d \in {dates[1], dates[2], dates[3]}

\* C16: whenever fewer than 3 slots are available, alternativeDates is
\* present and holds exactly the next 3 days after the requested date that
\* are no Saturday and no Sunday, in chronological order.
C16_AlternativeDates ==
    (recommendationsAnswer /\ availableCount(result.timeSlots) < 3)
    => /\ result.recommendations.alternativeDates # <<>>
       /\ nextThreeWeekdays(result.recommendations.alternativeDates[1],
                             options.date)

\* C16, its case: a Friday request with no slot available is answered with
\* the Monday, Tuesday and Wednesday after it.
C16_Witness ==
    /\ recommendationsAnswer
    /\ options.date % 7 = 5
    /\ availableCount(result.timeSlots) = 0
    /\ result.timeSlots # <<>>
    /\ result.recommendations.alternativeDates
           = <<(<<options.date + 3, options.date + 4, options.date + 5>>)>>

\* the response computed from the rows of each query in the order the table
\* holds them; the call itself may have got them in any order
resultInTableOrder ==
    IF requestedMachines(options) = {} THEN EmptyResult
    ELSE IF service = "weighted"
    THEN availabilityResult(options, findConflicting(seenConflicts, options),
                            findAllForLoad(seenLoad, options))
    ELSE app_availabilityResult(options, findConflicting(seenConflicts, options))

\* a step of a service call
callStep == pc' # pc /\ pc # "done"

invalidInput(opts) ==
    \/ opts.date = 0
    \/ opts.laboratoryId = 0
    \/ requestedMachines(opts) = {}
    \/ opts.duration # <<>> /\ opts.duration[1] <= 0

\* C18: a checkAvailability request with an absent date, an absent
\* laboratory id, an empty machine set or a non-positive duration ends in an
\* error reported to the caller, with no store query made and no slot
\* generated; it never ends in a normal result.
C18_InvalidInputRejected ==
    (pc = "done" /\ service \in {"weighted", "app", "route"}
        /\ invalidInput(options))
    => /\ "error" \in DOMAIN result
       /\ seenConflicts = <<>>
       /\ seenLoad = <<>>

\* the same of the requests that come through the route only
routeRejectsInvalidInput ==
    (pc = "done" /\ service = "route" /\ invalidInput(options))
    => /\ "error" \in DOMAIN result
       /\ result.status = 400
       /\ seenConflicts = <<>>

\* C19: after any sequence of AppointmentService.create and
\* AppointmentService.update calls every machine linked to a stored
\* appointment belongs to the laboratory of that appointment.
C19_MachinesOfTheLaboratory ==
    \A i \in 1..Len(appointments) :
        \A m \in appointments[i].machines :
            laboratoryOf(m) = appointments[i].laboratory_id

\* the two rows are of one date, share a machine and overlap in time
doubleBooked(a, b) ==
    /\ a.appointment_date = b.appointment_date
    /\ a.machines \cap b.machines # {}
    /\ a.start_time < b.end_time
    /\ b.start_time < a.end_time

notCancelled(a) == a.status \notin {"cancelled", "CANCELLED"}

\* C20: after any sequence of booking submissions no two appointments that
\* are not cancelled are of the same date, share a machine and overlap in
\* time; of two bookings of one slot at most one is stored as not cancelled.
C20_NoDoubleBooking ==
    \A i, j \in 1..Len(appointments) :
        (i < j /\ notCancelled(appointments[i]) /\ notCancelled(appointments[j]))
        => ~doubleBooked(appointments[i], appointments[j])

\* the fetched row is one the conflict check of the call held against the slot
heldAgainst(row, slot) ==
    timeSlotsOverlap(slot.start_time, slot.end_time,
                     ExistingAppointmentLight(row).start_time,
                     ExistingAppointmentLight(row).end_time)

\* C21: within one checkAvailability call the conflict check and the
\* concurrent-load term are computed from one snapshot: every appointment
\* that blocks a slot of the result is among the appointments counted in
\* the power load of that result.
C21_OneSnapshot ==
    weightedAnswer
    => \A i \in 1..Len(conflictRows) :
           (\E k \in 1..Len(result.timeSlots) :
                heldAgainst(conflictRows[i], result.timeSlots[k]))
           => \E j \in 1..Len(loadRows) : loadRows[j].id = conflictRows[i].id

\* the mean of the members' power_spike_percentage, and of their power
meanSpike(slots) ==
    RDiv(Sum([i \in 1..Len(slots) |-> slots[i].power_spike_percentage]),
         RInt(Len(slots)))

meanPower(slots) ==
    RDiv(Sum([i \in 1..Len(slots) |-> slots[i].power_consumption]),
         RInt(Len(slots)))

\* power ascending, the earlier start first among equal powers
powerThenStart(slots) ==
    \A i, j \in 1..Len(slots) :
        i < j
        => \/ RLt(slots[i].power_consumption, slots[j].power_consumption)
           \/ /\ slots[i].power_consumption = slots[j].power_consumption
              /\ minuteOfDay(slots[i].start_time) < minuteOfDay(slots[j].start_time)

\* the group carries the mean power of its members, in their sorted order
groupMeansPower(group) ==
    /\ group.average_power_consumption = meanPower(group.slots)
    /\ powerThenStart(group.slots)

\* C22: every emitted group has power_spike_percentage equal to the rounded
\* mean of its members' power_spike_percentage as returned in timeSlots,
\* average_power_consumption equal to the mean of its members' power, and
\* its slots in power-ascending order with start-time tie-break.
C22_GroupAverages ==
    weightedAnswer
    => \A g \in 1..Len(result.efficiencyGroups) :
           /\ result.efficiencyGroups[g].power_spike_percentage
                  = MathRound(meanSpike(result.efficiencyGroups[g].slots))
           /\ groupMeansPower(result.efficiencyGroups[g])

\* the same where the lowest power of the response is above 0, and the mean
\* power and the order in every response
groupAveragesAboveZero ==
    weightedAnswer
    => \A g \in 1..Len(result.efficiencyGroups) :
           /\ groupMeansPower(result.efficiencyGroups[g])
           /\ RLt(RZero, result.timeSlots[1].power_consumption)
              => result.efficiencyGroups[g].power_spike_percentage
                     = MathRound(meanSpike(result.efficiencyGroups[g].slots))

\* the earliest start and the latest end of the members, compared as times
spansItsMembers(group) ==
    /\ \E k \in 1..Len(group.slots) : group.slots[k].start_time = group.time_range[1]
    /\ \E k \in 1..Len(group.slots) : group.slots[k].end_time = group.time_range[2]
    /\ \A k \in 1..Len(group.slots) :
           /\ minuteOfDay(group.time_range[1]) <= minuteOfDay(group.slots[k].start_time)
           /\ minuteOfDay(group.slots[k].end_time) <= minuteOfDay(group.time_range[2])

\* a response that carries efficiency groups
groupedAnswer ==
    /\ pc = "done"
    /\ service \in {"weighted", "app", "route"}
    /\ "efficiencyGroups" \in DOMAIN result

\* C23: in the overlap-weighted service and in the service wired to the
\* availability route alike, the time_range of every group runs from the
\* earliest start_time to the latest end_time of its members, compared as
\* times.
C23_TimeRangeSpansMembers ==
    groupedAnswer
    => \A g \in 1..Len(result.efficiencyGroups) :
           spansItsMembers(result.efficiencyGroups[g])

\* the same for the overlap-weighted service alone
weightedTimeRangeSpansMembers ==
    weightedAnswer
    => \A g \in 1..Len(result.efficiencyGroups) :
           spansItsMembers(result.efficiencyGroups[g])

\* the minutes of the day inside [start, end)
minutesWithin(start, end) ==
    { m \in 0..1439 : minuteOfDay(start) <= m /\ m < minuteOfDay(end) }

\* the minutes that the two intervals of the arguments share
sharedMinutes(a) ==
    minutesWithin(a.start1, a.end1) \cap minutesWithin(a.start2, a.end2)

overlapAnswer == pc = "done" /\ service = "overlap"

\* C24: for start1 < end1 and start2 < end2, timeSlotsOverlap is true exactly
\* when start1 < end2 and end1 > start2, that is when the half-open intervals
\* share a minute; intervals that only touch do not overlap; the answer is
\* the same with the intervals swapped; overlapMinutes is
\* max(0, min(e1, e2) - max(s1, s2)), the number of shared minutes, and is
\* positive exactly when timeSlotsOverlap is true.
C24_OverlapOfIntervals ==
    overlapAnswer
    => /\ result.overlaps
            <=> /\ minuteOfDay(options.start1) < minuteOfDay(options.end2)
                /\ minuteOfDay(options.end1) > minuteOfDay(options.start2)
       /\ result.overlaps <=> sharedMinutes(options) # {}
       /\ (options.end1 = options.start2 \/ options.end2 = options.start1)
            => ~result.overlaps
       /\ result.overlaps
            = timeSlotsOverlap(options.start2, options.end2,
                               options.start1, options.end1)
       /\ result.minutes = Cardinality(sharedMinutes(options))
       /\ result.minutes > 0 <=> result.overlaps

\* two intervals that touch have been compared
C24_Witness ==
    /\ overlapAnswer
    /\ options.end1 = options.start2
    /\ ~result.overlaps
    /\ result.minutes = 0

\* the signal the claim expects for a time string that is not an "HH:MM"
InvalidTimeFormat == [error |-> "InvalidTimeFormat"]

\* an "HH:MM" of the day: 00..23 hours and 00..59 minutes
parsesAsTimeOfDay(time) == time[1] \in 0..23 /\ time[2] \in 0..59

\* the time strings of the fetched appointments that the call hands to
\* timeToMinutes
handedTimes ==
    { toLight(conflictRows)[i].start_time : i \in 1..Len(conflictRows) }
    \cup { toLight(conflictRows)[i].end_time : i \in 1..Len(conflictRows) }
    \cup { toLight(loadRows)[i].start_time : i \in 1..Len(loadRows) }
    \cup { toLight(loadRows)[i].end_time : i \in 1..Len(loadRows) }

\* C25: when a time string handed to the time arithmetic does not parse as
\* HH:MM, the computation signals InvalidTimeFormat; it never continues with
\* a minute count outside the day.
C25_InvalidTimeSignalled ==
    weightedAnswer
    => \/ result = InvalidTimeFormat
       \/ \A time \in handedTimes :
              parsesAsTimeOfDay(time) /\ timeToMinutes(time) \in 0..1439

profileAnswer == pc = "done" /\ service = "profile"

\* the hour is inside a preferred-hour window of the weekday
insideWindow(hour, dayOfWeek) ==
    \E i \in 1..Len(mockPreferredHours) :
        /\ mockPreferredHours[i].day_of_week = dayOfWeek
        /\ minuteOfDay(mockPreferredHours[i].start_time) <= 60 * hour
        /\ 60 * hour < minuteOfDay(mockPreferredHours[i].end_time)

\* the appointments of the array that count for the hour: of the laboratory
\* and the date, not cancelled, covering the hour
countedAt(hour) ==
    SelectSeq(seenMock,
              LAMBDA apt :
                  /\ apt.laboratory_id = options.laboratoryId
                  /\ apt.appointment_date = options.date
                  /\ apt.status # "cancelled"
                  /\ minuteOfDay(apt.start_time) <= 60 * hour
                  /\ 60 * hour < minuteOfDay(apt.end_time))

\* base load plus the power of the counted appointments, times 0.8 inside a
\* preferred-hour window
expectedConsumption(hour) ==
    LET load == RAdd(getBaseLaboratoryConsumption(hour),
                     Sum(powersOf(countedAt(hour))))
    IN  IF insideWindow(hour, getDay(options.date))
        THEN RMul(load, Rat(4, 5)) ELSE load

dailyAverage ==
    RDiv(Sum([i \in 1..24 |-> result.hourlyConsumption[i].consumption]), RInt(24))

hoursIn(sequence) == { sequence[i] : i \in 1..Len(sequence) }

\* peakHours are the hours above 1.2 times the daily average, optimalHours
\* those below 0.8 times
peakAndOptimalAsClaimed ==
    /\ hoursIn(result.peakHours)
         = { h \in 0..23 : RLt(RMul(dailyAverage, Rat(6, 5)),
                               result.hourlyConsumption[h + 1].consumption) }
    /\ hoursIn(result.optimalHours)
         = { h \in 0..23 : RLt(result.hourlyConsumption[h + 1].consumption,
                               RMul(dailyAverage, Rat(4, 5))) }

\* C26: in generateEnergyProfile the consumption of each of the 24 hours is
\* the base load plus the power of every non-cancelled appointment of the
\* laboratory and date covering the hour, times 0.8 whenever the hour falls
\* inside a preferred-hour window of the weekday; peakHours are exactly the
\* hours above 1.2 times the daily average and optimalHours exactly those
\* below 0.8 times.
C26_EnergyProfile ==
    profileAnswer
    => /\ Len(result.hourlyConsumption) = 24
       /\ \A h \in 0..23 :
              /\ result.hourlyConsumption[h + 1].hour = h
              /\ result.hourlyConsumption[h + 1].consumption = expectedConsumption(h)
       /\ peakAndOptimalAsClaimed

\* the same without the discount, which the profile never applies
profileUndiscounted ==
    profileAnswer
    => /\ \A h \in 0..23 :
              result.hourlyConsumption[h + 1].consumption
                  = RAdd(getBaseLaboratoryConsumption(h), Sum(powersOf(countedAt(h))))
       /\ peakAndOptimalAsClaimed

optimizeAnswer ==
    pc = "done" /\ service = "optimization" /\ options.call = "optimizeScheduling"

\* the energy profile of the call and its candidates with their power
profileOfCall == energyProfile(options.laboratoryId, options.date, seenMock)
candidatesOfCall == slotsWithPowerOf(options, profileOfCall)

\* an hourly-step candidate: it starts on the hour from 08:00, lasts the
\* requested duration and ends by 18:00
hourlyCandidate(slot) ==
    /\ slot.start_time[2] = 0
    /\ slot.start_time[1] >= 8
    /\ minuteOfDay(slot.end_time)
          = minuteOfDay(slot.start_time) + 60 * options.requestedDuration
    /\ minuteOfDay(slot.end_time) <= 18 * 60

\* a ranks strictly better than b under the order the caller asked for
ranksBetter(a, b, profile) ==
    IF prioritizes(options)
    THEN RLt(a.power_consumption, b.power_consumption)
    ELSE RLt(calculateSlotScore(b, profile), calculateSlotScore(a, profile))

\* no slot of the sequence ranks strictly better than one before it, and no
\* within-budget candidate outside it ranks strictly better than one inside
topRanked(chosen, candidates, profile) ==
    /\ \A i, j \in 1..Len(chosen) :
           i < j => ~ranksBetter(chosen[j], chosen[i], profile)
    /\ \A c \in 1..Len(candidates) :
           (/\ RLe(candidates[c].power_consumption, budgetOf(options))
            /\ ~isAmong(candidates[c], chosen))
           => \A i \in 1..Len(chosen) :
                  ~ranksBetter(candidates[c], chosen[i], profile)

\* C27: recommendedSlots has at most 3 slots, each with power_consumption
\* within maxPowerBudget, taken from the hourly-step candidates from 08:00
\* that end by 18:00; with prioritizeEfficiency they are the lowest-power
\* within-budget candidates in ascending power order, otherwise the
\* highest-scoring ones in descending score order; no within-budget candidate
\* left out ranks strictly better than one included.
C27_RecommendedSlots ==
    optimizeAnswer
    => /\ Len(result.recommendedSlots)
            = Min2(3, Len(withinBudget(candidatesOfCall, budgetOf(options))))
       /\ \A i \in 1..Len(result.recommendedSlots) :
              /\ RLe(result.recommendedSlots[i].power_consumption, budgetOf(options))
              /\ hourlyCandidate(result.recommendedSlots[i])
              /\ isAmong(result.recommendedSlots[i], candidatesOfCall)
              /\ \A j \in 1..Len(result.recommendedSlots) :
                     i # j => result.recommendedSlots[i] # result.recommendedSlots[j]
       /\ topRanked(result.recommendedSlots, candidatesOfCall, profileOfCall)

\* C27, its case: three slots were chosen by score, a candidate over the
\* budget and one within it were left out, and the chosen ones are not the
\* first three candidates
C27_Witness ==
    /\ optimizeAnswer
    /\ ~prioritizes(options)
    /\ Len(result.recommendedSlots) = 3
    /\ result.recommendedSlots # SubSeq(candidatesOfCall, 1, 3)
    /\ \E c \in 1..Len(candidatesOfCall) :
           RLt(budgetOf(options), candidatesOfCall[c].power_consumption)
    /\ \E c \in 1..Len(candidatesOfCall) :
           /\ RLe(candidatesOfCall[c].power_consumption, budgetOf(options))
           /\ ~isAmong(candidatesOfCall[c], result.recommendedSlots)

\* the schedule of the result with the description, <<>> when it is not emitted
scheduleNamed(description) ==
    SelectSeq(result.alternativeSchedules,
              LAMBDA alternative : alternative.description = description)

\* the slot lies in the 08:00-12:00 window, be it only with its first part:
\* it starts in the window, before 12:00
liesInMorning(slot) ==
    /\ 8 * 60 <= minuteOfDay(slot.start_time)
    /\ minuteOfDay(slot.start_time) < 12 * 60

\* the slot starts at an hour from 8 to 12, the hour 12 included
startsByNoon(slot) ==
    hourOf(slot.start_time) >= 8 /\ hourOf(slot.start_time) <= 12

\* ascending power, and no candidate of the filter outside the schedule has
\* less power than a slot inside it
lowestPowerOf(schedule, eligible) ==
    /\ \A i, j \in 1..Len(schedule) :
           i < j => RLe(schedule[i].power_consumption, schedule[j].power_consumption)
    /\ \A c \in 1..Len(eligible) :
           ~isAmong(eligible[c], schedule)
           => \A i \in 1..Len(schedule) :
                  RLe(schedule[i].power_consumption, eligible[c].power_consumption)

\* the schedule with the description is emitted exactly when a candidate
\* passes the filter, holds the first `count` of them in the order asked
\* for, and totals their power
emittedAsClaimed(description, eligible, count, byStart) ==
    /\ Len(scheduleNamed(description)) = (IF Len(eligible) > 0 THEN 1 ELSE 0)
    /\ \A n \in 1..Len(scheduleNamed(description)) :
           LET schedule == scheduleNamed(description)[n].schedule
           IN  /\ Len(schedule) = Min2(count, Len(eligible))
               /\ \A i \in 1..Len(schedule) : isAmong(schedule[i], eligible)
               /\ \A i, j \in 1..Len(schedule) : i # j => schedule[i] # schedule[j]
               /\ IF byStart
                  THEN \A i \in 1..Len(schedule) : schedule[i] = eligible[i]
                  ELSE lowestPowerOf(schedule, eligible)
               /\ scheduleNamed(description)[n].totalPower = Sum(powersOf(schedule))

\* the descriptions in the order most-efficient, morning, flexible
inScheduleOrder ==
    \A i, j \in 1..Len(result.alternativeSchedules) :
        i < j
        => \/ result.alternativeSchedules[i].description = "Maxima eficiencia energetica"
           \/ result.alternativeSchedules[j].description
                  = "Horarios flexibles con mayor disponibilidad"

\* the three schedules, given the within-budget candidates of the morning
schedulesAsClaimed(morningEligible) ==
    /\ inScheduleOrder
    /\ emittedAsClaimed("Maxima eficiencia energetica",
                        withinBudget(candidatesOfCall, budgetOf(options)), 2, FALSE)
    /\ emittedAsClaimed("Horarios matutinos balanceados", morningEligible, 2, FALSE)
    /\ emittedAsClaimed("Horarios flexibles con mayor disponibilidad",
                        withinBudget(candidatesOfCall,
                                     RMul(budgetOf(options), Rat(6, 5))), 3, TRUE)

\* C28: generateAlternativeSchedules emits, each only when non-empty and in
\* this order, the most-efficient schedule (lowest-power slots within the
\* budget), the morning-preferring schedule (lowest-power slots within the
\* budget that lie in the 08:00-12:00 window) and the flexible schedule
\* (slots within 1.2 times the budget by earliest start); every slot of a
\* schedule satisfies the schedule's filter and each totalPower is the sum
\* of its slots' powers.
C28_AlternativeSchedules ==
    optimizeAnswer
    => schedulesAsClaimed(SelectSeq(withinBudget(candidatesOfCall, budgetOf(options)),
                                    liesInMorning))

\* the same with the morning filter of the code: a start hour from 8 to 12
schedulesWithStartsByNoon ==
    optimizeAnswer
    => schedulesAsClaimed(SelectSeq(withinBudget(candidatesOfCall, budgetOf(options)),
                                    startsByNoon))

\* a number that is neither Infinity, -Infinity nor NaN
isFiniteNumber(x) == x[2] # 0

\* C29: for every input of optimizeScheduling, a budget that no candidate
\* fits and a duration that yields no candidate included, powerSavings is a
\* finite number >= 0 and efficiencyScore lies in [0, 100].
C29_SavingsAndScoreInRange ==
    optimizeAnswer
    => /\ isFiniteNumber(result.powerSavings)
       /\ RLe(RZero, result.powerSavings)
       /\ RLe(RZero, result.efficiencyScore)
       /\ RLe(result.efficiencyScore, RInt(100))

\* the same for the calls that recommend a slot, where powerSavings is the
\* worst candidate power minus the best recommended power; the score is in
\* range in every call
savingsInRangeWhenRecommended ==
    optimizeAnswer
    => /\ RLe(RZero, result.efficiencyScore)
       /\ RLe(result.efficiencyScore, RInt(100))
       /\ Len(result.recommendedSlots) > 0
          => /\ isFiniteNumber(result.powerSavings)
             /\ RLe(RZero, result.powerSavings)
             /\ result.powerSavings
                   = RSub(MathMax(powersOf(candidatesOfCall)),
                          MathMin(powersOf(result.recommendedSlots)))

weeklyAnswer ==
    pc = "done" /\ service = "optimization" /\ options.call = "getWeeklyOptimization"

\* the dates of the seven days from startDate that are not a Saturday or a
\* Sunday
workingDates ==
    { d \in options.date..(options.date + 6) : d % 7 \in 1..5 }

\* one entry for each working date and no other
oneEntryPerWorkingDate ==
    /\ Len(result.dailyRecommendations) = Cardinality(workingDates)
    /\ \A d \in workingDates :
           \E k \in 1..Len(result.dailyRecommendations) :
               result.dailyRecommendations[k].date = d

\* the efficiencyScore the week's entry of the date carries
scoreOfDate(d) ==
    result.dailyRecommendations[
        CHOOSE k \in 1..Len(result.dailyRecommendations) :
            result.dailyRecommendations[k].date = d].optimization.efficiencyScore

\* bestDays: up to three of the dates, none scoring below a date left out
bestDaysAsClaimed ==
    LET bestDays == result.weeklyInsights.bestDays
    IN  /\ Len(bestDays) = Min2(3, Cardinality(workingDates))
        /\ \A i, j \in 1..Len(bestDays) : i # j => bestDays[i] # bestDays[j]
        /\ \A i \in 1..Len(bestDays) :
               /\ bestDays[i] \in workingDates
               /\ \A d \in workingDates \ hoursIn(bestDays) :
                      RLe(scoreOfDate(d), scoreOfDate(bestDays[i]))

weeklyEntriesAndBestDays ==
    weeklyAnswer => oneEntryPerWorkingDate /\ bestDaysAsClaimed

\* the order of dailyRecommendations on the mockAppointments as shipped,
\* where every working day of a laboratory has the same efficiencyScore
weeklyInDateOrderAsShipped ==
    (weeklyAnswer /\ seenMock = <<app1, app2>>)
    => \A i, j \in 1..Len(result.dailyRecommendations) :
           i < j => result.dailyRecommendations[i].date
                        < result.dailyRecommendations[j].date

====
